---- MODULE Spec2Model ----
(***************************************************************************)
(* A model of the MLIR IR core: the affine map composition / normalization *)
(* algorithm of lib/AffineOps/AffineOps.cpp and the generic Operation of   *)
(* lib/IR/Operation.cpp (creation, operand uses, cloning).                 *)
(*                                                                         *)
(* Affine expressions are sums of terms coef * d<pos> and coef * s<pos>     *)
(* plus a constant.  Position p of the code (0-based) is index p + 1 of    *)
(* the sequences of the model.                                             *)
(***************************************************************************)
EXTENDS Integers, Sequences, FiniteSets, TLC

(* ------------------------------------------------------------------ *)
(* Bounds                                                              *)
(* ------------------------------------------------------------------ *)

\* Number of affine.apply operations the IR may hold.
MaxApplyOps == 2
\* Number of iterations of the loop of fullyComposeAffineMapAndOperands that
\* are followed: one more than a chain of MaxApplyOps operations can need.
MaxPasses == MaxApplyOps + 1

(* ------------------------------------------------------------------ *)
(* Values                                                              *)
(* ------------------------------------------------------------------ *)

\* Loop induction variables: block arguments of an affine.for body.
IVs == {1}
\* Values defined at the top level of a function.
TopLevel == {2, 3}
Leaves == IVs \cup TopLevel

\* The Value that is the single result of the i-th affine.apply operation.
ResultOf(i) == Cardinality(Leaves) + i
\* The affine.apply operation defining v (0 when v has no such definition).
ApplyIndex(v) == IF v > Cardinality(Leaves) THEN v - Cardinality(Leaves) ELSE 0

(* ------------------------------------------------------------------ *)
(* Small sequence helpers                                              *)
(* ------------------------------------------------------------------ *)

Range(s) == {s[i] : i \in 1..Len(s)}

Min(a, b) == IF a < b THEN a ELSE b

\* ArrayRef::take_back(n): the last n elements.
take_back(s, n) == SubSeq(s, Len(s) - Min(n, Len(s)) + 1, Len(s))

\* The 0-based position of the first occurrence of v in s (Len(s) if absent).
RECURSIVE FirstPos(_, _, _)
FirstPos(s, v, i) ==
    IF i > Len(s) THEN Len(s)
    ELSE IF s[i] = v THEN i - 1
    ELSE FirstPos(s, v, i + 1)

SetMax(S) == CHOOSE x \in S : \A y \in S : y <= x

RECURSIVE SeqSum(_)
SeqSum(s) == IF s = <<>> THEN 0 ELSE Head(s) + SeqSum(Tail(s))

(* ------------------------------------------------------------------ *)
(* Affine expressions                                                  *)
(* ------------------------------------------------------------------ *)

\* An expression is a sum of products: the terms coef * d<pos> or
\* coef * s<pos> in the order they were written, and a constant (the builder
\* folds constants and keeps them to the right).  Like terms stay apart until
\* the map is simplified.
Term(kind, pos, coef) == [kind |-> kind, pos |-> pos, coef |-> coef]

getAffineConstantExpr(k) == [terms |-> <<>>, const |-> k]
getAffineDimExpr(p) == [terms |-> <<Term("d", p, 1)>>, const |-> 0]
getAffineSymbolExpr(p) == [terms |-> <<Term("s", p, 1)>>, const |-> 0]

\* A default-constructed (null) AffineExpr.
NullExpr == [terms |-> <<Term("null", 0, 1)>>, const |-> 0]

ExprAdd(a, b) == [terms |-> a.terms \o b.terms, const |-> a.const + b.const]

ExprScale(k, a) ==
    [terms |-> [i \in 1..Len(a.terms) |->
                   [a.terms[i] EXCEPT !.coef = k * @]],
     const |-> k * a.const]

RECURSIVE ExprSum(_)
ExprSum(es) == IF es = <<>> THEN getAffineConstantExpr(0)
               ELSE ExprAdd(Head(es), ExprSum(Tail(es)))

\* Positions the expression refers to (AffineExpr::walk over dim / symbol ids).
UsedDims(e) == {e.terms[i].pos : i \in {j \in 1..Len(e.terms) :
                                            e.terms[j].kind = "d"}}
UsedSyms(e) == {e.terms[i].pos : i \in {j \in 1..Len(e.terms) :
                                            e.terms[j].kind = "s"}}
HasNull(e) == \E i \in 1..Len(e.terms) : e.terms[i].kind = "null"

\* AffineExpr::replaceDimsAndSymbols: position p is replaced by the p-th
\* replacement; a position beyond the replacement list is left as it is.
replaceTerm(t, dimReplacements, symReplacements) ==
    IF t.kind = "d" /\ t.pos < Len(dimReplacements)
    THEN ExprScale(t.coef, dimReplacements[t.pos + 1])
    ELSE IF t.kind = "s" /\ t.pos < Len(symReplacements)
    THEN ExprScale(t.coef, symReplacements[t.pos + 1])
    ELSE [terms |-> <<t>>, const |-> 0]

replaceDimsAndSymbolsExpr(e, dimReplacements, symReplacements) ==
    ExprSum(<<getAffineConstantExpr(e.const)>>
        \o [i \in 1..Len(e.terms) |->
              replaceTerm(e.terms[i], dimReplacements, symReplacements)])

\* The coefficient of a position once like terms are collected.
Coefficient(e, kind, pos) ==
    SeqSum([i \in 1..Len(e.terms) |->
              IF e.terms[i].kind = kind /\ e.terms[i].pos = pos
              THEN e.terms[i].coef ELSE 0])

\* The elements of a finite set of numbers in increasing order.
RECURSIVE Sorted(_)
Sorted(S) ==
    IF S = {} THEN <<>>
    ELSE LET m == CHOOSE x \in S : \A y \in S : x <= y
         IN  <<m>> \o Sorted(S \ {m})

\* simplifyAffineExpr: the flattened form, dims in position order, then
\* symbols in position order, then the constant.
simplifyAffineExpr(e) ==
    LET dims == Sorted({p \in UsedDims(e) : Coefficient(e, "d", p) # 0})
        syms == Sorted({p \in UsedSyms(e) : Coefficient(e, "s", p) # 0})
    IN  [terms |->
            [i \in 1..Len(dims) |->
                Term("d", dims[i], Coefficient(e, "d", dims[i]))]
            \o [i \in 1..Len(syms) |->
                Term("s", syms[i], Coefficient(e, "s", syms[i]))]
            \o SelectSeq(e.terms, LAMBDA t : t.kind = "null"),
         const |-> e.const]

(* ------------------------------------------------------------------ *)
(* Affine maps                                                         *)
(* ------------------------------------------------------------------ *)

AffineMapGet(numDims, numSymbols, results) ==
    [numDims |-> numDims, numSymbols |-> numSymbols, results |-> results]

getNumInputs(m) == m.numDims + m.numSymbols

\* AffineMap::replaceDimsAndSymbols.
replaceDimsAndSymbols(m, dimRepl, symRepl, numResultDims, numResultSyms) ==
    AffineMapGet(numResultDims, numResultSyms,
        [r \in 1..Len(m.results) |->
            replaceDimsAndSymbolsExpr(m.results[r], dimRepl, symRepl)])

\* AffineMap::walkExprs restricted to the dim / symbol leaves.
MapUsedDims(m) == UNION {UsedDims(m.results[r]) : r \in 1..Len(m.results)}
MapUsedSyms(m) == UNION {UsedSyms(m.results[r]) : r \in 1..Len(m.results)}

\* Data-model invariant of a map: every position referred to is in range.
MapWellFormed(m) ==
    /\ \A p \in MapUsedDims(m) : p < m.numDims
    /\ \A p \in MapUsedSyms(m) : p < m.numSymbols
    /\ \A r \in 1..Len(m.results) : ~HasNull(m.results[r])

\* AffineMap::compose: this(other(x)).  The dims of `this` are replaced by
\* the results of `other`; the symbols of `this` come first and the symbols
\* of `other` are concatenated after them.
compose(this, other) ==
    LET numSymbolsThisMap == this.numSymbols
        numSymbols == numSymbolsThisMap + other.numSymbols
        newSymbols == [j \in 1..SetMax({other.numSymbols}
                            \cup {q + 1 : q \in MapUsedSyms(other)}) |->
                          getAffineSymbolExpr(j - 1 + numSymbolsThisMap)]
        newMap == replaceDimsAndSymbols(other, <<>>, newSymbols,
                                        other.numDims, numSymbols)
    IN  AffineMapGet(other.numDims, numSymbols,
            [r \in 1..Len(this.results) |->
                replaceDimsAndSymbolsExpr(this.results[r], newMap.results,
                                          <<>>)])

\* simplifyAffineMap.
simplifyAffineMap(m) ==
    AffineMapGet(m.numDims, m.numSymbols,
        [r \in 1..Len(m.results) |-> simplifyAffineExpr(m.results[r])])

\* (d0, d1) -> (d0 - d1)
MapDifference ==
    AffineMapGet(2, 0, <<ExprAdd(getAffineDimExpr(0),
                                 ExprScale(-1, getAffineDimExpr(1)))>>)
\* (d0)[s0] -> (d0 + s0 * 2)
MapDimPlusSymbol ==
    AffineMapGet(1, 1, <<ExprAdd(getAffineDimExpr(0),
                                 ExprScale(2, getAffineSymbolExpr(0)))>>)
\* ()[s0, s1] -> (s0 + s1 * 3)
MapTwoSymbols ==
    AffineMapGet(0, 2, <<ExprAdd(getAffineSymbolExpr(0),
                                 ExprScale(3, getAffineSymbolExpr(1)))>>)
\* (d0)[s0] -> (d0 + s0 + s0): not in simplified form.
MapRepeatedSymbol ==
    AffineMapGet(1, 1, <<ExprSum(<<getAffineDimExpr(0),
                                   getAffineSymbolExpr(0),
                                   getAffineSymbolExpr(0)>>)>>)

\* The maps the entry points are called with.
MapCatalogue ==
    {MapDifference, MapDimPlusSymbol, MapTwoSymbols, MapRepeatedSymbol}

\* (d0, d1)[s0, s1] -> (d1 + s1 * 2): d0 and s0 are not used.
MapUnusedInputs ==
    AffineMapGet(2, 2, <<ExprAdd(getAffineDimExpr(1),
                                 ExprScale(2, getAffineSymbolExpr(1)))>>)
\* (d0, d1)[s0] -> (d0 + s0, d1 - s0)
MapTwoResults ==
    AffineMapGet(2, 1, <<ExprAdd(getAffineDimExpr(0), getAffineSymbolExpr(0)),
                         ExprAdd(getAffineDimExpr(1),
                                 ExprScale(-1, getAffineSymbolExpr(0)))>>)

\* The maps canonicalizeMapAndOperands is called with.
CanonCatalogue == MapCatalogue \cup {MapUnusedInputs, MapTwoResults}

\* The maps of the affine.apply operations of the IR.
ApplyCatalogue == {MapDimPlusSymbol, MapTwoSymbols}

(* ------------------------------------------------------------------ *)
(* State                                                               *)
(* ------------------------------------------------------------------ *)

VARIABLES
    applyOps,      \* the affine.apply operations of the IR: [map, operands]
    pc,            \* "idle", "loop" (inside fullyCompose), "done", "fault"
    api,           \* the entry point that was called
    inMap,         \* the map the entry point was called with
    inOperands,    \* the operands the entry point was called with
    map,           \* *map, as the entry point leaves it
    operands,      \* *operands, as the entry point leaves it
    assertsOk,     \* no assertion of the called functions has failed
    arityOk,       \* every (map, operands) pair made so far had matching arity
    passes         \* iterations of the loop of fullyCompose... run so far

affineVars == <<applyOps, pc, api, inMap, inOperands, map, operands,
                assertsOk, arityOk, passes>>

VARIABLES
    operations,    \* the Operations made so far; the index is the identity
    blocks,        \* the Blocks made so far; the index is the identity
    useList,       \* for every Value, its use list (the head is first)
    irPc,          \* "run", or "abort" once an assertion has failed
    calls,         \* calls that changed or cloned operations so far
    call           \* the last call: its arguments, the state before, its result

opVars == <<operations, blocks, useList, irPc, calls, call>>

VARIABLES
    affineApplyDepth,  \* the thread-local counter of AffineApplyNormalizer
    normalizers        \* the AffineApplyNormalizer objects alive, outermost
                       \* first: [operands, i, furtherCompose, composed, pc]

normVars == <<affineApplyDepth, normalizers>>

VARIABLES
    foldCall       \* the last call of a fold: its arguments and its result

foldVars == <<foldCall>>

VARIABLES
    foldScopes,          \* OperationFolder::foldScopes: the entries
                         \* [region, dialect, value, type, op] of the
                         \* ConstantMap of every insertion region
    referencedDialects,  \* OperationFolder::referencedDialects: the pairs
                         \* [op, dialect]
    info,                \* for every operation the folder has seen made,
                         \* its result type and, for a constant, its value
    freed,               \* the operations that were destroyed
    notified,            \* the operations notifyRemoval was called on
    folderCall           \* the last call on the folder and its result

folderVars ==
    <<foldScopes, referencedDialects, info, freed, notified, folderCall>>

VARIABLES
    defs           \* the Values of a function, in the order of definition:
                   \* [kind, type, inFunctionRegion, operands] with what
                   \* isValidDim and isValidSymbol answered for each

valueVars == <<defs>>

VARIABLES
    opLists,        \* block -> the operations of the block, in list order
    orderIndex,     \* operation -> its orderIndex
    validInstOrder, \* block -> whether the order indices of the block hold
    opBlock,        \* operation -> its block, 0 when it is in none
    orderQuery      \* the last call of isBeforeInBlock, cleared by a change

orderVars == <<opLists, orderIndex, validInstOrder, opBlock, orderQuery>>

VARIABLES
    traitCall       \* the last call of a trait check: the check, the types
                    \* of the operands and results, the LogicalResult

traitVars == <<traitCall>>

\* What the calls on affine maps, the calls on Operations, the steps of the
\* normalizer and the folds leave alone.
outsideAffine ==
    <<opVars, normVars, foldVars, folderVars, valueVars, orderVars, traitVars>>
outsideOp ==
    <<affineVars, normVars, foldVars, folderVars, valueVars, orderVars, traitVars>>
outsideNormalizer ==
    <<opVars, foldVars, folderVars, valueVars, orderVars, traitVars>>
outsideFold ==
    <<affineVars, opVars, normVars, folderVars, valueVars, orderVars, traitVars>>
outsideFolder ==
    <<affineVars, normVars, foldVars, valueVars, orderVars, traitVars>>
outsideValues ==
    <<affineVars, opVars, normVars, foldVars, folderVars, orderVars,
      traitVars>>
outsideOrder ==
    <<affineVars, opVars, normVars, foldVars, folderVars, valueVars,
      traitVars>>
outsideTraits ==
    <<affineVars, opVars, normVars, foldVars, folderVars, valueVars,
      orderVars>>

(* ------------------------------------------------------------------ *)
(* Dim and symbol validity                                             *)
(* ------------------------------------------------------------------ *)

isAffineApplyResult(v) == ApplyIndex(v) # 0

\* mlir::isValidSymbol.  Every Value of the model has index type; the leaves
\* are block arguments, and affine.apply operations sit in a loop body.
RECURSIVE isValidSymbol(_)
isValidSymbol(value) ==
    IF isAffineApplyResult(value)
    THEN \A i \in 1..Len(applyOps[ApplyIndex(value)].operands) :
            isValidSymbol(applyOps[ApplyIndex(value)].operands[i])
    ELSE value \in TopLevel

\* mlir::isValidDim.
RECURSIVE isValidDim(_)
isValidDim(value) ==
    IF isAffineApplyResult(value)
    THEN \A i \in 1..Len(applyOps[ApplyIndex(value)].operands) :
            isValidDim(applyOps[ApplyIndex(value)].operands[i])
    ELSE TRUE

\* verifyDimAndSymbolIdentifiers.
verifyDimAndSymbolIdentifiers(ops, numDims) ==
    \A i \in 1..Len(ops) :
        IF i - 1 < numDims THEN isValidDim(ops[i]) ELSE isValidSymbol(ops[i])

\* AffineApplyOp::verify.
AffineApplyVerify(m, ops) ==
    /\ Len(ops) = m.numDims + m.numSymbols
    /\ verifyDimAndSymbolIdentifiers(ops, m.numDims)
    /\ Len(m.results) = 1

(* ------------------------------------------------------------------ *)
(* Dim and symbol validity of the Values of a function                *)
(* ------------------------------------------------------------------ *)

\* The Values that are defined in a run.
MaxDefs == 4

\* A Value: a block argument (kind "argument") or the result of the
\* operation kind.  inFunctionRegion: the block that owns the argument, or
\* the operation, is in the region of a FuncOp.
ValueDef(kind, type, inFunctionRegion, valueOperands) ==
    [kind |-> kind, type |-> type, inFunctionRegion |-> inFunctionRegion,
     operands |-> valueOperands]

\* The types of the Values: index and one that is not.
ValueTypes == {"index", "i1"}

\* mlir::isTopLevelSymbol.
isTopLevelSymbol(ds, v) == ds[v].inFunctionRegion

RECURSIVE isValidDimValue(_, _)
RECURSIVE isValidSymbolValue(_, _)

\* AffineApplyOp::isValidDim.
applyIsValidDim(ds, v) ==
    \A i \in 1..Len(ds[v].operands) : isValidDimValue(ds, ds[v].operands[i])

\* AffineApplyOp::isValidSymbol.
applyIsValidSymbol(ds, v) ==
    \A i \in 1..Len(ds[v].operands) :
        isValidSymbolValue(ds, ds[v].operands[i])

\* The branch of isValidDim and isValidSymbol for a Value that an operation
\* defines, with the answer of the affine.apply given.
definedValueIsValid(ds, v, applyIsValid) ==
    IF ds[v].inFunctionRegion \/ ds[v].kind = "std.constant" THEN TRUE
    ELSE IF ds[v].kind = "affine.apply" THEN applyIsValid
    ELSE IF ds[v].kind = "std.dim"
    THEN isTopLevelSymbol(ds, ds[v].operands[1])
    ELSE FALSE

\* An isValidDim that asks of the operands of an affine.apply that they are
\* block arguments.
isValidDimOfArguments(ds, v) ==
    IF ds[v].type # "index" THEN FALSE
    ELSE IF ds[v].kind # "argument"
    THEN definedValueIsValid(ds, v,
            \A i \in 1..Len(ds[v].operands) :
                ds[ds[v].operands[i]].kind = "argument")
    ELSE TRUE

\* mlir::isValidDim on any Value.
isValidDimValue(ds, v) ==
    IF ds[v].type # "index" THEN FALSE
    ELSE IF ds[v].kind # "argument"
    THEN definedValueIsValid(ds, v, applyIsValidDim(ds, v))
    ELSE TRUE

\* An isValidSymbol without the test of the type.
isValidSymbolOfAnyType(ds, v) ==
    IF ds[v].kind # "argument"
    THEN definedValueIsValid(ds, v, applyIsValidSymbol(ds, v))
    ELSE isTopLevelSymbol(ds, v)

\* mlir::isValidSymbol on any Value.
isValidSymbolValue(ds, v) ==
    IF ds[v].type # "index" THEN FALSE
    ELSE IF ds[v].kind # "argument"
    THEN definedValueIsValid(ds, v, applyIsValidSymbol(ds, v))
    ELSE isTopLevelSymbol(ds, v)

\* The Values that can be defined after ds: block arguments, constants and
\* results of std.addi of either type, results of affine.apply on one or two
\* Values and of std.dim on one.
ValueDefs(ds) ==
    {ValueDef(k, t, f, <<>>) :
        k \in {"argument", "std.constant", "std.addi"}, t \in ValueTypes,
        f \in BOOLEAN}
    \cup {ValueDef("affine.apply", "index", f, <<p[1], p[2]>>) :
            f \in BOOLEAN,
            p \in {q \in (DOMAIN ds) \X (DOMAIN ds) : q[1] < q[2]}}
    \cup {ValueDef(k, "index", f, <<a>>) :
            k \in {"affine.apply", "std.dim"}, f \in BOOLEAN,
            a \in DOMAIN ds}

\* What the two predicates answer for the last Value of ds.
withValidity(ds) ==
    [ds EXCEPT ![Len(ds)] =
        [kind |-> @.kind, type |-> @.type,
         inFunctionRegion |-> @.inFunctionRegion, operands |-> @.operands,
         validDim |-> isValidDimValue(ds, Len(ds)),
         validSymbol |-> isValidSymbolValue(ds, Len(ds))]]

ValueInit == defs = <<>>

\* A Value is defined and isValidDim and isValidSymbol are called on it.
DefineValue ==
    /\ Len(defs) < MaxDefs
    /\ \E d \in ValueDefs(defs) : defs' = withValidity(Append(defs, d))
    /\ UNCHANGED outsideValues

(* ------------------------------------------------------------------ *)
(* The order of the operations of a block                              *)
(* ------------------------------------------------------------------ *)

\* The operations and the blocks of the lists.
MaxOrderOps == 4
MaxOrderBlocks == 2
OrderOps == 1..MaxOrderOps
OrderBlocks == 1..MaxOrderBlocks

\* The lists, the order indices and the block pointers as one value.
OrderState ==
    [lists |-> opLists, index |-> orderIndex, valid |-> validInstOrder,
     block |-> opBlock]

\* A list without its element at position i, and with op before position i.
listWithout(list, i) == SubSeq(list, 1, i - 1) \o SubSeq(list, i + 1, Len(list))
listWith(list, i, ops) ==
    SubSeq(list, 1, i - 1) \o ops \o SubSeq(list, i, Len(list))

\* The position of op in its list; the iterator of op.
getIterator(st, op) ==
    CHOOSE i \in 1..Len(st.lists[st.block[op]]) :
        st.lists[st.block[op]][i] = op

\* Block::invalidateInstOrder.
invalidateInstOrder(st, b) == [st EXCEPT !.valid[b] = FALSE]

\* Block::recomputeInstOrder: the operations are numbered in list order.
recomputeInstOrder(st, b) ==
    [st EXCEPT
        !.index = [op \in OrderOps |->
                    IF st.block[op] = b THEN getIterator(st, op) - 1
                    ELSE st.index[op]],
        !.valid[b] = TRUE]

\* ilist_traits<Operation>::addNodeToList, called on the list of b.
addNodeToList(st, b, op) ==
    invalidateInstOrder([st EXCEPT !.block[op] = b], b)

\* ilist_traits<Operation>::removeNodeFromList: the order of the block
\* is left as it is.
removeNodeFromOpList(st, op) == [st EXCEPT !.block[op] = 0]

\* A transferNodesFromList that leaves the order of the block valid.
transferNodesKeepingOrder(st, b, other, moved) ==
    [st EXCEPT
        !.block = [op \in OrderOps |->
                    IF b # other /\ \E i \in 1..Len(moved) : moved[i] = op
                    THEN b ELSE st.block[op]]]

\* ilist_traits<Operation>::transferNodesFromList, called on the list of b
\* with the list of other and the operations of [first, last).
transferNodesFromList(st, b, other, moved) ==
    [invalidateInstOrder(st, b) EXCEPT
        !.block = [op \in OrderOps |->
                    IF b # other /\ \E i \in 1..Len(moved) : moved[i] = op
                    THEN b ELSE st.block[op]]]

\* iplist::insert: op, which is in no block, is linked before position
\* where of b.
listInsert(st, b, where, op) ==
    [addNodeToList(st, b, op) EXCEPT
        !.lists[b] = listWith(st.lists[b], where, <<op>>)]

\* iplist::remove: op is unlinked from its block.
listRemove(st, op) ==
    [removeNodeFromOpList(st, op) EXCEPT
        !.lists[st.block[op]] = listWithout(@, getIterator(st, op))]

\* iplist::transfer: the operations [first, last) of other are linked
\* before position where of b; nothing happens when where is last.
transfer(st, b, where, other, first, last) ==
    IF b = other /\ where = last THEN st
    ELSE LET moved == SubSeq(st.lists[other], first, last - 1)
             t == transferNodesFromList(st, b, other, moved)
             kept == SubSeq(st.lists[other], 1, first - 1)
                     \o SubSeq(st.lists[other], last, Len(st.lists[other]))
         IN  IF b = other
             THEN [t EXCEPT
                    !.lists[b] =
                        IF where < first
                        THEN listWith(kept, where, moved)
                        ELSE listWith(kept, where - Len(moved), moved)]
             ELSE [t EXCEPT
                    !.lists[other] = kept,
                    !.lists[b] = listWith(st.lists[b], where, moved)]

\* iplist::splice of one element: nothing happens when where is the
\* element or the one after it.
spliceOne(st, b, where, other, first) ==
    IF b = other /\ (where = first \/ where = first + 1) THEN st
    ELSE transfer(st, b, where, other, first, first + 1)

\* iplist::splice of a range: nothing happens for an empty range.
spliceRange(st, b, where, other, first, last) ==
    IF first = last THEN st
    ELSE transfer(st, b, where, other, first, last)

\* Operation::moveBefore(block, iterator).
moveBefore(st, op, b, iterator) ==
    spliceOne(st, b, iterator, st.block[op], getIterator(st, op))

\* Operation::moveBefore(existingInst).
moveBeforeOp(st, op, existingInst) ==
    moveBefore(st, op, st.block[existingInst], getIterator(st, existingInst))

\* Operation::isBeforeInBlock: the state after the call and the answer.
isBeforeInBlock(st, op, other) ==
    LET t == IF ~st.valid[st.block[op]]
             THEN recomputeInstOrder(st, st.block[op]) ELSE st
    IN  [state |-> t, result |-> t.index[op] < t.index[other]]

\* No call of isBeforeInBlock since the last change.  A call is recorded
\* with its answer, with whether it recomputed the order and with what the
\* indices it found would have answered.
NoQuery ==
    [op |-> 0, other |-> 0, result |-> FALSE, recomputed |-> FALSE,
     found |-> FALSE]

OrderInit ==
    /\ opLists = [b \in OrderBlocks |-> <<>>]
    /\ orderIndex = [op \in OrderOps |-> 0]
    /\ validInstOrder = [b \in OrderBlocks |-> TRUE]
    /\ opBlock = [op \in OrderOps |-> 0]
    /\ orderQuery = NoQuery

orderBecomes(st, query) ==
    /\ opLists' = st.lists
    /\ orderIndex' = st.index
    /\ validInstOrder' = st.valid
    /\ opBlock' = st.block
    /\ orderQuery' = query
    /\ UNCHANGED outsideOrder

\* An operation that is in no block is inserted into a block.
InsertOp ==
    \E op \in OrderOps, b \in OrderBlocks :
        /\ opBlock[op] = 0
        /\ \E where \in 1..(Len(opLists[b]) + 1) :
            orderBecomes(listInsert(OrderState, b, where, op), NoQuery)

\* An operation is removed from its block.
RemoveOp ==
    \E op \in OrderOps :
        /\ opBlock[op] # 0
        /\ orderBecomes(listRemove(OrderState, op), NoQuery)

\* An operation is moved before an operation of its block or of another.
MoveBefore ==
    \E op \in OrderOps, existingInst \in OrderOps :
        /\ opBlock[op] # 0 /\ opBlock[existingInst] # 0
        /\ orderBecomes(moveBeforeOp(OrderState, op, existingInst), NoQuery)

\* Operations [first, last) of a block are spliced into another block.
TransferOps ==
    \E b \in OrderBlocks :
      \E other \in OrderBlocks \ {b} :
        \E first \in 1..(Len(opLists[other]) + 1) :
            \E last \in first..(Len(opLists[other]) + 1),
               where \in 1..(Len(opLists[b]) + 1) :
                orderBecomes(
                    spliceRange(OrderState, b, where, other, first, last),
                    NoQuery)

\* isBeforeInBlock is called on two operations of a block.
IsBeforeInBlock ==
    \E op \in OrderOps, other \in OrderOps :
        /\ opBlock[op] # 0 /\ opBlock[other] = opBlock[op]
        /\ \E res \in {isBeforeInBlock(OrderState, op, other)} :
            orderBecomes(res.state,
                [op |-> op, other |-> other, result |-> res.result,
                 recomputed |-> ~validInstOrder[opBlock[op]],
                 found |-> orderIndex[op] < orderIndex[other]])

(* ------------------------------------------------------------------ *)
(* AffineApplyNormalizer                                               *)
(* ------------------------------------------------------------------ *)

kMaxAffineApplyDepth == 1

\* The members of a normalizer under construction: reorderedDims,
\* concatenatedSymbols and the local auxiliaryExprs.  dimValueToPosition maps
\* reorderedDims[p] to p.
EmptyNormalizer ==
    [reorderedDims |-> <<>>, concatenatedSymbols |-> <<>>,
     auxiliaryExprs |-> <<>>, position |-> 0, ok |-> TRUE]

\* renumberOneDim without the lookup in dimValueToPosition: every Value is
\* given a new position.
renumberOneDimAlwaysInserts(n, v) ==
    [n EXCEPT !.reorderedDims = Append(@, v),
              !.position = Len(n.reorderedDims)]

\* AffineApplyNormalizer::renumberOneDim: the normalizer after the insertion
\* try; position is the position of the AffineDimExpr it returns.
renumberOneDim(n, v) ==
    IF v \in Range(n.reorderedDims)
    THEN [n EXCEPT !.position = FirstPos(n.reorderedDims, v, 1)]
    ELSE [n EXCEPT !.reorderedDims = Append(@, v),
                   !.position = Len(n.reorderedDims)]

\* The first loop of renumber (lines 316-321) from the i-th dim of `other`
\* on: n takes the dims in, acc is dimRemapping (the dims of `other` are at
\* the positions 0, 1, ... of `other`, in this order).
RECURSIVE renumberDims(_, _, _, _)
RECURSIVE renumberDimsNext(_, _, _, _)
renumberDims(n, otherDims, i, acc) ==
    IF i > Len(otherDims) THEN [n |-> n, dimRemapping |-> acc]
    ELSE renumberDimsNext(renumberOneDim(n, otherDims[i]), otherDims, i, acc)
renumberDimsNext(n, otherDims, i, acc) ==
    renumberDims(n, otherDims, i + 1,
                 Append(acc, getAffineDimExpr(n.position)))

symRemappingOf(numSymbols, numOtherSymbols) ==
    [idx \in 1..numOtherSymbols |-> getAffineSymbolExpr(idx - 1 + numSymbols)]

\* AffineApplyNormalizer::renumber: the normalizer after taking in `other`.
renumberState(n, other) ==
    [renumberDims(n, other.reorderedDims, 1, <<>>).n EXCEPT
        !.concatenatedSymbols = @ \o other.concatenatedSymbols]

\* AffineApplyNormalizer::renumber: other.affineMap in the coordinates of n.
renumber(n, other) ==
    replaceDimsAndSymbols(other.affineMap,
        renumberDims(n, other.reorderedDims, 1, <<>>).dimRemapping,
        symRemappingOf(Len(n.concatenatedSymbols),
                       Len(other.concatenatedSymbols)),
        Len(other.reorderedDims), Len(other.concatenatedSymbols))

\* indicesFromAffineApplyOp: 0-based positions of the operands that an
\* affine.apply produces.
indicesFromAffineApplyOp(ops) ==
    {i - 1 : i \in {j \in 1..Len(ops) : isAffineApplyResult(ops[j])}}

\* promoteComposedSymbolsAsDims.
promoteComposedSymbolsAsDims(m, symbols) ==
    LET symPositions == indicesFromAffineApplyOp(symbols)
        numDims == m.numDims
        numSymbols == m.numSymbols
        \* promoted symbols / kept symbols among positions 0 .. i - 1
        newDimsBefore(i) == Cardinality({p \in symPositions : p < i})
        newSymsBefore(i) == i - newDimsBefore(i)
        symReplacements == [i \in 1..numSymbols |->
            IF (i - 1) \in symPositions
            THEN getAffineDimExpr(numDims + newDimsBefore(i - 1))
            ELSE getAffineSymbolExpr(newSymsBefore(i - 1))]
        numNewDims == newDimsBefore(numSymbols)
        numNewSymbols == newSymsBefore(numSymbols)
    IN  IF symbols = <<>> THEN m
        ELSE IF symPositions = {} THEN m
        ELSE replaceDimsAndSymbols(m, <<>>, symReplacements,
                                   numDims + numNewDims, numNewSymbols)

\* renumberOneDim(t) pushed to auxiliaryExprs.
pushExpr(n, expr) == [n EXCEPT !.auxiliaryExprs = Append(@, expr)]
pushRenumbered(n) == pushExpr(n, getAffineDimExpr(n.position))
pushDim(n, t) == pushRenumbered(renumberOneDim(n, t))

pushSymbol(n, t) == [n EXCEPT !.concatenatedSymbols = Append(@, t)]

\* Branch 1 of the constructor (lines 460-474): only dispatch dims or symbols.
RECURSIVE dispatchOnly(_, _, _, _)
dispatchOnly(n, m, ops, i) ==
    IF i > Len(ops) THEN n
    ELSE LET t == ops[i]
             isDim == (i - 1) < m.numDims
         IN  dispatchOnly(IF isDim THEN pushDim(n, t) ELSE pushSymbol(n, t),
                          m, ops, i + 1)

RECURSIVE AffineApplyNormalizer(_, _, _)

\* Lines 493-498: the composed normalizer is renumbered into n and the result
\* of the renumbered map is pushed to auxiliaryExprs.
pushComposed(n, normalizer) ==
    [renumberState(n, normalizer) EXCEPT
        !.auxiliaryExprs = Append(@, renumber(n, normalizer).results[1]),
        !.ok = @ /\ normalizer.assertsOk]

\* Case a of branch 2 without the composition: t is dispatched as a dim.
composeApplyAsDim(n, t, depth) == pushDim(n, t)

\* Case a of branch 2 (lines 481-498): compose the affine.apply defining t.
composeApply(n, t, depth) ==
    pushComposed(n, AffineApplyNormalizer(applyOps[ApplyIndex(t)].map,
                                          applyOps[ApplyIndex(t)].operands,
                                          depth + 1))

\* Branch 2 of the constructor (lines 475-510): compose the affine.apply
\* operands, dispatch the others.
RECURSIVE composeAndDispatch(_, _, _, _, _)
composeAndDispatch(n, numDimsBeforeRewrite, ops, i, depth) ==
    IF i > Len(ops) THEN n
    ELSE LET t == ops[i]
         IN  composeAndDispatch(
                IF isAffineApplyResult(t) THEN composeApply(n, t, depth)
                ELSE IF (i - 1) < numDimsBeforeRewrite THEN pushDim(n, t)
                ELSE pushSymbol(n, t),
                numDimsBeforeRewrite, ops, i + 1, depth)

\* Lines 512-531 of the constructor: the early exit, or the composition of
\* the rewritten map m with the auxiliary map.
normalizerResult(m, n, entryAsserts) ==
    IF n.auxiliaryExprs = <<>>
    THEN [affineMap |-> m,
          reorderedDims |-> n.reorderedDims,
          concatenatedSymbols |-> n.concatenatedSymbols,
          auxWellFormed |-> TRUE,
          assertsOk |-> entryAsserts /\ n.ok]
    ELSE [affineMap |->
            simplifyAffineMap(compose(m,
                AffineMapGet(Len(n.reorderedDims),
                             Len(n.concatenatedSymbols) - m.numSymbols,
                             n.auxiliaryExprs))),
          reorderedDims |-> n.reorderedDims,
          concatenatedSymbols |-> n.concatenatedSymbols,
          \* the auxiliary map refers to the positions it has and gives
          \* one result per dim of m
          auxWellFormed |->
            /\ Len(n.concatenatedSymbols) >= m.numSymbols
            /\ MapWellFormed(
                AffineMapGet(Len(n.reorderedDims),
                             Len(n.concatenatedSymbols) - m.numSymbols,
                             n.auxiliaryExprs))
            /\ m.numDims = Len(n.auxiliaryExprs),
          \* line 518
          assertsOk |-> /\ entryAsserts /\ n.ok
                        /\ Len(n.concatenatedSymbols) >= m.numSymbols]

\* The constructor with furtherCompose always true: affine.apply operands
\* are composed at every depth.
normalizerDispatchAtAnyDepth(m0, m, ops, depth) ==
    normalizerResult(m,
        composeAndDispatch(EmptyNormalizer, m0.numDims, ops, 1, depth),
        /\ getNumInputs(m0) = Len(ops)
        /\ m0.numDims <= Len(ops))

\* Lines 454-510 of the constructor, m being the map with its composed
\* symbols promoted.
normalizerDispatch(m0, m, ops, depth) ==
    normalizerResult(m,
        IF ~(depth <= kMaxAffineApplyDepth)
        THEN dispatchOnly(EmptyNormalizer, m, ops, 1)
        ELSE composeAndDispatch(EmptyNormalizer, m0.numDims, ops, 1, depth),
        /\ getNumInputs(m0) = Len(ops)
        /\ (depth <= kMaxAffineApplyDepth) => m0.numDims <= Len(ops))

\* AffineApplyNormalizer::AffineApplyNormalizer(map, operands).  depth is the
\* value of affineApplyDepth() once the delegated default constructor has
\* incremented it.
AffineApplyNormalizer(m0, ops, depth) ==
    normalizerDispatch(m0,
        promoteComposedSymbolsAsDims(m0, take_back(ops, m0.numSymbols)),
        ops, depth)

\* AffineApplyNormalizer::getOperands.
getOperands(normalizer) ==
    normalizer.reorderedDims \o normalizer.concatenatedSymbols

(* ------------------------------------------------------------------ *)
(* Canonicalization                                                    *)
(* ------------------------------------------------------------------ *)

\* The loop of canonicalizePromotedSymbols (lines 591-604) from operand i on.
\* acc holds resultOperands, remappedSymbols and dimRemapping; nextDim and
\* nextSym are the lengths of the dims pushed to resultOperands and of
\* remappedSymbols.
RECURSIVE promotedSymbolsLoop(_, _, _, _)
promotedSymbolsLoop(m, ops, i, acc) ==
    IF i > getNumInputs(m) THEN acc
    ELSE promotedSymbolsLoop(m, ops, i + 1,
            IF i - 1 < m.numDims
            THEN IF isValidSymbol(ops[i])
                 THEN [acc EXCEPT
                        !.dimRemapping = Append(@, getAffineSymbolExpr(
                            m.numSymbols + Len(acc.remappedSymbols))),
                        !.remappedSymbols = Append(@, ops[i])]
                 ELSE [acc EXCEPT
                        !.dimRemapping =
                            Append(@, getAffineDimExpr(acc.nextDim)),
                        !.nextDim = @ + 1,
                        !.resultOperands = Append(@, ops[i])]
            ELSE [acc EXCEPT !.resultOperands = Append(@, ops[i])])

\* Lines 606-612 with the promoted dims left out of the symbol count.
promotedSymbolsResultOldCount(m, acc) ==
    [map |-> replaceDimsAndSymbols(m, acc.dimRemapping, <<>>, acc.nextDim,
                                   m.numSymbols),
     operands |-> acc.resultOperands \o acc.remappedSymbols,
     assertsOk |-> acc.nextDim + m.numSymbols
                   = Len(acc.resultOperands) + Len(acc.remappedSymbols)]

\* Lines 606-612 of canonicalizePromotedSymbols.
promotedSymbolsResult(m, acc) ==
    [map |-> replaceDimsAndSymbols(m, acc.dimRemapping, <<>>, acc.nextDim,
                                   m.numSymbols + Len(acc.remappedSymbols)),
     operands |-> acc.resultOperands \o acc.remappedSymbols,
     assertsOk |-> acc.nextDim + m.numSymbols + Len(acc.remappedSymbols)
                   = Len(acc.resultOperands) + Len(acc.remappedSymbols)]

Arity(m, ops) == getNumInputs(m) = Len(ops)

\* canonicalizePromotedSymbols: dims that are valid symbols become symbols.
canonicalizePromotedSymbols(m, ops) ==
    IF ops = <<>> THEN [map |-> m, operands |-> ops, assertsOk |-> TRUE]
    ELSE IF getNumInputs(m) # Len(ops)
    THEN [map |-> m, operands |-> ops, assertsOk |-> FALSE]
    ELSE promotedSymbolsResult(m,
            promotedSymbolsLoop(m, ops, 1,
                [resultOperands |-> <<>>, remappedSymbols |-> <<>>,
                 dimRemapping |-> <<>>, nextDim |-> 0]))

RECURSIVE seenLoop(_, _, _, _, _, _, _)

\* The loops of canonicalizeMapAndOperands without the lookup in seenDims or
\* seenSymbols: every used operand is kept.
seenLoopKeepsDuplicates(kind, count, used, base, ops, i, acc) ==
    IF i >= count THEN acc
    ELSE seenLoop(kind, count, used, base, ops, i + 1,
            IF i \notin used
            THEN [acc EXCEPT !.remapping = Append(@, NullExpr)]
            ELSE [kept |-> Append(acc.kept, ops[base + i + 1]),
                  remapping |-> Append(acc.remapping,
                      IF kind = "d" THEN getAffineDimExpr(Len(acc.kept))
                      ELSE getAffineSymbolExpr(Len(acc.kept)))])

\* One of the two loops of canonicalizeMapAndOperands (lines 643-654 for the
\* dims, 658-670 for the symbols) from position i on.  used is usedDims or
\* usedSyms, base the index of the first operand of the kind, acc.kept the
\* operands pushed to resultOperands by this loop (the keys of seenDims or
\* seenSymbols, in the order of their new positions).
seenLoop(kind, count, used, base, ops, i, acc) ==
    IF i >= count THEN acc
    ELSE LET v == ops[base + i + 1]
             expr(q) == IF kind = "d" THEN getAffineDimExpr(q)
                        ELSE getAffineSymbolExpr(q)
         IN  seenLoop(kind, count, used, base, ops, i + 1,
                IF i \notin used
                THEN [acc EXCEPT !.remapping = Append(@, NullExpr)]
                ELSE IF v \notin Range(acc.kept)
                THEN [kept |-> Append(acc.kept, v),
                      remapping |-> Append(acc.remapping,
                                           expr(Len(acc.kept)))]
                ELSE [acc EXCEPT !.remapping =
                        Append(@, expr(FirstPos(acc.kept, v, 1)))])

\* Lines 671-673 with the symbol operands put in front of the dim operands.
canonicalResultSymbolsFirst(m, dims, syms, ok) ==
    [map |-> replaceDimsAndSymbols(m, dims.remapping, syms.remapping,
                                   Len(dims.kept), Len(syms.kept)),
     operands |-> syms.kept \o dims.kept,
     assertsOk |-> ok]

\* Lines 671-673 of canonicalizeMapAndOperands.
canonicalResult(m, dims, syms, ok) ==
    [map |-> replaceDimsAndSymbols(m, dims.remapping, syms.remapping,
                                   Len(dims.kept), Len(syms.kept)),
     operands |-> dims.kept \o syms.kept,
     assertsOk |-> ok]

\* Lines 625-673 of canonicalizeMapAndOperands, on the map and operands that
\* canonicalizePromotedSymbols left.
canonicalizeUsed(m, ops, ok) ==
    canonicalResult(m,
        seenLoop("d", m.numDims, MapUsedDims(m), 0, ops, 0,
                 [kept |-> <<>>, remapping |-> <<>>]),
        seenLoop("s", m.numSymbols, MapUsedSyms(m), m.numDims, ops, 0,
                 [kept |-> <<>>, remapping |-> <<>>]),
        ok)

canonicalizeAfterPromotion(promoted) ==
    canonicalizeUsed(promoted.map, promoted.operands, promoted.assertsOk)

\* mlir::canonicalizeMapAndOperands.
canonicalizeMapAndOperands(m0, ops0) ==
    IF ops0 = <<>> THEN [map |-> m0, operands |-> ops0, assertsOk |-> TRUE]
    ELSE IF getNumInputs(m0) # Len(ops0)
    THEN [map |-> m0, operands |-> ops0, assertsOk |-> FALSE]
    ELSE canonicalizeAfterPromotion(canonicalizePromotedSymbols(m0, ops0))

(* ------------------------------------------------------------------ *)
(* Composition entry points                                            *)
(* ------------------------------------------------------------------ *)

\* Lines 546-548 of composeAffineMapAndOperands.
composedResult(normalizer, canonical) ==
    [map |-> canonical.map,
     operands |-> canonical.operands,
     assertsOk |-> normalizer.assertsOk /\ canonical.assertsOk,
     arityOk |-> /\ Arity(normalizer.affineMap, getOperands(normalizer))
                 /\ Arity(canonical.map, canonical.operands),
     \* the maps handed to compose and to walkExprs refer to positions
     \* they have
     defined |-> normalizer.auxWellFormed
                 /\ MapWellFormed(normalizer.affineMap)]

canonicalizeNormalized(normalizer) ==
    composedResult(normalizer,
        canonicalizeMapAndOperands(normalizer.affineMap,
                                   getOperands(normalizer)))

\* composeAffineMapAndOperands with the depth counter already past the cap:
\* the normalizer only dispatches, nothing is inlined.
composeWithoutInlining(m, ops) ==
    canonicalizeNormalized(
        AffineApplyNormalizer(m, ops, kMaxAffineApplyDepth + 1))

\* composeAffineMapAndOperands, called with affineApplyDepth() = 0.
composeAffineMapAndOperands(m, ops) ==
    canonicalizeNormalized(AffineApplyNormalizer(m, ops, 1))

(* ------------------------------------------------------------------ *)
(* The function a map with operands denotes                            *)
(* ------------------------------------------------------------------ *)

\* The integers a leaf Value may hold.
EnvValues == {0, 1}
Envs == [Leaves -> EnvValues]

evalTerm(t, numDims, vals) ==
    t.coef * (IF t.kind = "d" THEN vals[t.pos + 1]
              ELSE vals[numDims + t.pos + 1])

evalExpr(e, numDims, vals) ==
    e.const + SeqSum([i \in 1..Len(e.terms) |->
                        evalTerm(e.terms[i], numDims, vals)])

\* The results of m on the inputs vals (dims first, then symbols).
evalMap(m, vals) ==
    [r \in 1..Len(m.results) |-> evalExpr(m.results[r], m.numDims, vals)]

\* The integer a Value holds: a leaf holds what env gives it, the result of
\* an affine.apply holds its map applied to what its operands hold.
RECURSIVE valueOf(_, _)
valueOf(env, v) ==
    IF isAffineApplyResult(v)
    THEN evalMap(applyOps[ApplyIndex(v)].map,
                 [i \in 1..Len(applyOps[ApplyIndex(v)].operands) |->
                    valueOf(env, applyOps[ApplyIndex(v)].operands[i])])[1]
    ELSE env[v]

applyMap(env, m, ops) ==
    evalMap(m, [i \in 1..Len(ops) |-> valueOf(env, ops[i])])

\* (m1, ops1) is a well-formed map application that denotes what (m2, ops2)
\* denotes.
SameFunction(m1, ops1, m2, ops2) ==
    /\ MapWellFormed(m1)
    /\ Arity(m1, ops1)
    /\ \A env \in Envs : applyMap(env, m1, ops1) = applyMap(env, m2, ops2)

(* ------------------------------------------------------------------ *)
(* Operations of the affine part                                       *)
(* ------------------------------------------------------------------ *)

\* The Values of the IR.
Values == Leaves \cup {ResultOf(i) : i \in 1..Len(applyOps)}

\* A map with operands that verify as dims and symbols.
ValidMapOperands(m, ops) ==
    /\ Len(ops) = getNumInputs(m)
    /\ verifyDimAndSymbolIdentifiers(ops, m.numDims)

\* The operand lists a new operation or a call is given.  An operation that
\* nothing refers to has no effect on a call, so once the IR holds an
\* affine.apply the lists that matter use the result of the last one.
OperandLists(m) ==
    {ops \in [1..getNumInputs(m) -> Values] :
        applyOps = <<>> \/ ResultOf(Len(applyOps)) \in Range(ops)}

hasAffineApplyOperand(ops) ==
    \E i \in 1..Len(ops) : isAffineApplyResult(ops[i])

AffineInit ==
    /\ applyOps = <<>>
    /\ pc = "idle"
    /\ api = "none"
    /\ inMap = AffineMapGet(0, 0, <<>>)
    /\ inOperands = <<>>
    /\ map = AffineMapGet(0, 0, <<>>)
    /\ operands = <<>>
    /\ assertsOk = TRUE
    /\ arityOk = TRUE
    /\ passes = 0

\* AffineApplyOp::build of an operation that verifies.
CreateApply ==
    /\ pc = "idle"
    /\ Len(applyOps) < MaxApplyOps
    /\ \E m \in ApplyCatalogue :
       \E ops \in [1..getNumInputs(m) -> Values] :
          /\ AffineApplyVerify(m, ops)
          /\ applyOps' = Append(applyOps, [map |-> m, operands |-> ops])
    /\ UNCHANGED <<pc, api, inMap, inOperands, map, operands, assertsOk,
                   arityOk, passes>>
    /\ UNCHANGED outsideAffine

\* A call of composeAffineMapAndOperands that returns.
Compose ==
    /\ pc = "idle"
    /\ \E m \in MapCatalogue : \E ops \in OperandLists(m) :
          /\ ValidMapOperands(m, ops)
          /\ \E res \in {composeAffineMapAndOperands(m, ops)} :
                 /\ inMap' = m
                 /\ inOperands' = ops
                 /\ map' = res.map
                 /\ operands' = res.operands
                 /\ assertsOk' = res.assertsOk
                 /\ arityOk' = res.arityOk
    /\ pc' = "done"
    /\ api' = "compose"
    /\ UNCHANGED <<applyOps, passes>>
    /\ UNCHANGED outsideAffine

\* A call of composeAffineMapAndOperands whose maps refer to positions they
\* do not have: the build may stop in the null expression or in the bit
\* vector instead of returning.
ComposeFault ==
    /\ pc = "idle"
    /\ \E m \in MapCatalogue : \E ops \in OperandLists(m) :
          /\ ValidMapOperands(m, ops)
          /\ \E res \in {composeAffineMapAndOperands(m, ops)} :
                 /\ ~res.defined
                 /\ inMap' = m
                 /\ inOperands' = ops
                 /\ assertsOk' = res.assertsOk
                 /\ arityOk' = res.arityOk
    /\ pc' = "fault"
    /\ api' = "compose"
    /\ UNCHANGED <<applyOps, map, operands, passes>>
    /\ UNCHANGED outsideAffine

\* fullyComposeAffineMapAndOperands is entered.
FullyEnter ==
    /\ pc = "idle"
    /\ \E m \in MapCatalogue : \E ops \in OperandLists(m) :
          /\ ValidMapOperands(m, ops)
          /\ inMap' = m
          /\ inOperands' = ops
          /\ map' = m
          /\ operands' = ops
    /\ pc' = "loop"
    /\ api' = "fullyCompose"
    /\ UNCHANGED <<applyOps, assertsOk, arityOk, passes>>
    /\ UNCHANGED outsideAffine

\* What lets an iteration of the loop of fullyComposeAffineMapAndOperands
\* run, and its count.
FullyIteration ==
    /\ pc = "loop"
    /\ hasAffineApplyOperand(operands)
    /\ passes < MaxPasses
    /\ passes' = passes + 1

\* One iteration of the loop of fullyComposeAffineMapAndOperands.
FullyPass ==
    /\ FullyIteration
    /\ \E res \in {composeAffineMapAndOperands(map, operands)} :
           /\ map' = res.map
           /\ operands' = res.operands
           /\ assertsOk' = (assertsOk /\ res.assertsOk)
           /\ arityOk' = (arityOk /\ res.arityOk)
    /\ UNCHANGED <<applyOps, pc, api, inMap, inOperands>>
    /\ UNCHANGED outsideAffine

\* An iteration that does not return (see ComposeFault).
FullyFault ==
    /\ pc = "loop"
    /\ hasAffineApplyOperand(operands)
    /\ ~composeAffineMapAndOperands(map, operands).defined
    /\ pc' = "fault"
    /\ UNCHANGED <<applyOps, api, inMap, inOperands, map, operands, assertsOk,
                   arityOk, passes>>
    /\ UNCHANGED outsideAffine

\* The loop condition is false: fullyComposeAffineMapAndOperands returns.
FullyExit ==
    /\ pc = "loop"
    /\ ~hasAffineApplyOperand(operands)
    /\ pc' = "done"
    /\ UNCHANGED <<applyOps, api, inMap, inOperands, map, operands, assertsOk,
                   arityOk, passes>>
    /\ UNCHANGED outsideAffine

\* A call of canonicalizeMapAndOperands on a non-empty operand list.
Canonicalize ==
    /\ pc = "idle"
    /\ \E m \in CanonCatalogue : \E ops \in OperandLists(m) :
          \E res \in {canonicalizeMapAndOperands(m, ops)} :
             /\ inMap' = m
             /\ inOperands' = ops
             /\ map' = res.map
             /\ operands' = res.operands
             /\ assertsOk' = res.assertsOk
             /\ arityOk' = Arity(res.map, res.operands)
    /\ pc' = "done"
    /\ api' = "canonicalize"
    /\ UNCHANGED <<applyOps, passes>>
    /\ UNCHANGED outsideAffine

(* ------------------------------------------------------------------ *)
(* The recursion-depth counter, one constructor step at a time         *)
(* ------------------------------------------------------------------ *)

\* AffineApplyNormalizer() { affineApplyDepth()++; } on the counter.
afterConstructor(depth) == depth + 1

\* A destructor that leaves the counter alone.
afterDestructorKeeps(depth) == depth

\* ~AffineApplyNormalizer() { affineApplyDepth()--; } on the counter.  The
\* counter is unsigned: a result below zero stands for the wrapped value.
afterDestructor(depth) == depth - 1

\* The object whose principal constructor starts on (m, ops), the delegated
\* default constructor having left the counter at depth.  composed tells
\* whether auxiliaryExprs holds an expression.
NewNormalizer(m, ops, depth) ==
    [map |-> m, operands |-> ops, i |-> 1,
     furtherCompose |-> (depth <= kMaxAffineApplyDepth),
     composed |-> FALSE, pc |-> "constructing"]

\* The innermost object alive, the one whose code runs.
current == normalizers[Len(normalizers)]

\* Whether the loop of the constructor composes the affine.apply defining
\* the operand it is at (case 2.a) instead of dispatching the operand.
composesOperand(n) == n.furtherCompose /\ isAffineApplyResult(n.operands[n.i])

\* Whether a dispatched operand goes to auxiliaryExprs: cases 1.a and 2.b.
dispatchesDim(n) ==
    IF n.furtherCompose THEN (n.i - 1) < n.map.numDims
    ELSE (n.i - 1) <
         promoteComposedSymbolsAsDims(n.map,
             take_back(n.operands, n.map.numSymbols)).numDims

NormInit ==
    /\ affineApplyDepth = 0
    /\ normalizers = <<>>

\* One of the three entry points is called on a map and operands that verify.
CallEnter ==
    /\ pc = "idle"
    /\ \E m \in MapCatalogue : \E ops \in OperandLists(m) :
          /\ ValidMapOperands(m, ops)
          /\ inMap' = m
          /\ inOperands' = ops
          /\ map' = m
          /\ operands' = ops
    /\ \E entry \in {"compose", "fullyCompose", "makeComposedAffineApply"} :
          api' = entry
    /\ pc' = "called"
    /\ UNCHANGED <<applyOps, assertsOk, arityOk, passes>>
    /\ UNCHANGED outsideAffine

\* composeAffineMapAndOperands declares its normalizer (line 543); in
\* fullyComposeAffineMapAndOperands, when the loop condition holds.
ConstructNormalizer ==
    /\ pc = "called"
    /\ api = "fullyCompose" =>
          hasAffineApplyOperand(operands) /\ passes < MaxPasses
    /\ affineApplyDepth' = afterConstructor(affineApplyDepth)
    /\ normalizers' = <<NewNormalizer(map, operands, affineApplyDepth')>>
    /\ passes' = IF api = "fullyCompose" THEN passes + 1 ELSE passes
    /\ pc' = "composing"
    /\ UNCHANGED <<applyOps, api, inMap, inOperands, map, operands,
                   assertsOk, arityOk>>
    /\ UNCHANGED outsideNormalizer

\* Cases 1.a, 1.b, 2.b and 2.c of the constructor: the operand is dispatched.
Dispatch ==
    /\ pc = "composing"
    /\ current.pc = "constructing"
    /\ current.i <= Len(current.operands)
    /\ ~composesOperand(current)
    /\ normalizers' =
          [normalizers EXCEPT
              ![Len(normalizers)].i = @ + 1,
              ![Len(normalizers)].composed = @ \/ dispatchesDim(current)]
    /\ UNCHANGED <<affineVars, affineApplyDepth>>
    /\ UNCHANGED outsideNormalizer

\* Case 2.a of the constructor: the normalizer of the affine.apply that
\* defines the operand is declared (line 488).
NestedConstruct ==
    /\ pc = "composing"
    /\ current.pc = "constructing"
    /\ current.i <= Len(current.operands)
    /\ composesOperand(current)
    /\ affineApplyDepth' = afterConstructor(affineApplyDepth)
    /\ normalizers' =
          Append(normalizers,
                 NewNormalizer(applyOps[ApplyIndex(current.operands[current.i])].map,
                               applyOps[ApplyIndex(current.operands[current.i])].operands,
                               affineApplyDepth'))
    /\ UNCHANGED affineVars
    /\ UNCHANGED outsideNormalizer

\* The constructor returns: by the early exit when auxiliaryExprs is empty,
\* at its end otherwise.
ConstructorReturn ==
    /\ pc = "composing"
    /\ current.pc = "constructing"
    /\ current.i > Len(current.operands)
    /\ normalizers' = [normalizers EXCEPT ![Len(normalizers)].pc = "alive"]
    /\ UNCHANGED <<affineVars, affineApplyDepth>>
    /\ UNCHANGED outsideNormalizer

\* The rest of case 2.a: the nested normalizer is renumbered into the
\* current one, and goes out of scope at the end of the iteration.
NestedDestroy ==
    /\ pc = "composing"
    /\ Len(normalizers) > 1
    /\ current.pc = "alive"
    /\ affineApplyDepth' = afterDestructor(affineApplyDepth)
    /\ normalizers' =
          [SubSeq(normalizers, 1, Len(normalizers) - 1) EXCEPT
              ![Len(normalizers) - 1].i = @ + 1,
              ![Len(normalizers) - 1].composed = TRUE]
    /\ UNCHANGED affineVars
    /\ UNCHANGED outsideNormalizer

\* composeAffineMapAndOperands reads its normalizer, canonicalizes, and
\* returns, which ends the scope of the normalizer; makeComposedAffineApply
\* builds the operation from what it left.
ComposeReturn ==
    /\ pc = "composing"
    /\ Len(normalizers) = 1
    /\ current.pc = "alive"
    /\ \E res \in {composeAffineMapAndOperands(map, operands)} :
           /\ res.defined
           /\ map' = res.map
           /\ operands' = res.operands
           /\ assertsOk' = (assertsOk /\ res.assertsOk)
           /\ arityOk' = (arityOk /\ res.arityOk)
           /\ applyOps' =
                IF api = "makeComposedAffineApply"
                THEN Append(applyOps,
                            [map |-> res.map, operands |-> res.operands])
                ELSE applyOps
    /\ affineApplyDepth' = afterDestructor(affineApplyDepth)
    /\ normalizers' = <<>>
    /\ pc' = IF api = "fullyCompose" THEN "called" ELSE "done"
    /\ UNCHANGED <<api, inMap, inOperands, passes>>
    /\ UNCHANGED outsideNormalizer

\* The call does not return (see ComposeFault): the process stops with the
\* normalizer alive.
ComposeAbort ==
    /\ pc = "composing"
    /\ Len(normalizers) = 1
    /\ current.pc = "alive"
    /\ ~composeAffineMapAndOperands(map, operands).defined
    /\ pc' = "fault"
    /\ UNCHANGED <<applyOps, api, inMap, inOperands, map, operands, assertsOk,
                   arityOk, passes>>
    /\ UNCHANGED outsideAffine

\* The loop condition of fullyComposeAffineMapAndOperands is false.
FullyReturn ==
    /\ pc = "called"
    /\ api = "fullyCompose"
    /\ ~hasAffineApplyOperand(operands)
    /\ pc' = "done"
    /\ UNCHANGED <<applyOps, api, inMap, inOperands, map, operands, assertsOk,
                   arityOk, passes>>
    /\ UNCHANGED outsideAffine

(* ------------------------------------------------------------------ *)
(* Folding                                                             *)
(* ------------------------------------------------------------------ *)

\* An IntegerAttr, and a null Attribute: the operand is not a constant.
IntegerAttr(n) == [null |-> FALSE, int |-> n]
NoAttribute == [null |-> TRUE, int |-> 0]
\* The attributes the constant operands hold.
ConstantAttrs == {IntegerAttr(5), IntegerAttr(-2)}

\* An OpFoldResult: null, an existing Value (kind "value"), or an Attribute
\* (kind "attribute").
OpFoldResult(kind, v, a) == [kind |-> kind, value |-> v, attribute |-> a]

\* The maps of the affine.apply operations that are folded:
\* (d0) -> (d0 + 3), (d0, d1) -> (d1), (d0)[s0, s1] -> (s1), (d0) -> (7),
\* (d0)[s0] -> (d0 + s0 * 2) and ()[s0, s1] -> (s0 + s1 * 3).
FoldCatalogue ==
    {AffineMapGet(1, 0, <<ExprAdd(getAffineDimExpr(0),
                                  getAffineConstantExpr(3))>>),
     AffineMapGet(2, 0, <<getAffineDimExpr(1)>>),
     AffineMapGet(1, 2, <<getAffineSymbolExpr(1)>>),
     AffineMapGet(1, 0, <<getAffineConstantExpr(7)>>),
     MapDimPlusSymbol, MapTwoSymbols}

\* The operand a term refers to: dims first, then symbols.
operandIndex(t, numDims) == IF t.kind = "d" THEN t.pos + 1
                            ELSE numDims + t.pos + 1

\* AffineMap::constantFold: every result expression is evaluated on the
\* operand constants; it fails when an operand an expression refers to has
\* no constant attribute.
constantFold(m, operandConstants) ==
    IF \E r \in 1..Len(m.results) : \E k \in 1..Len(m.results[r].terms) :
          operandConstants[operandIndex(m.results[r].terms[k], m.numDims)]
              = NoAttribute
    THEN [succeeded |-> FALSE, results |-> <<>>]
    ELSE [succeeded |-> TRUE,
          results |->
            [r \in 1..Len(m.results) |->
               IntegerAttr(m.results[r].const
                 + SeqSum([k \in 1..Len(m.results[r].terms) |->
                      m.results[r].terms[k].coef
                      * operandConstants[
                          operandIndex(m.results[r].terms[k],
                                       m.numDims)].int]))]]

\* expr.dyn_cast<AffineDimExpr>() / dyn_cast<AffineSymbolExpr>(): the
\* expression is the bare identifier.
isBare(expr, kind) ==
    /\ expr.const = 0
    /\ Len(expr.terms) = 1
    /\ expr.terms[1].kind = kind
    /\ expr.terms[1].coef = 1

\* The fold of a bare symbol that forgets the dims in front of the symbols.
AffineApplyFoldSymbolAsDim(m, ops, attrs) ==
    IF isBare(m.results[1], "d")
    THEN OpFoldResult("value", ops[m.results[1].terms[1].pos + 1],
                      NoAttribute)
    ELSE IF isBare(m.results[1], "s")
    THEN OpFoldResult("value", ops[m.results[1].terms[1].pos + 1],
                      NoAttribute)
    ELSE IF ~constantFold(m, attrs).succeeded
    THEN OpFoldResult("null", 0, NoAttribute)
    ELSE OpFoldResult("attribute", 0, constantFold(m, attrs).results[1])

\* AffineApplyOp::fold(operands) of the operation with map m and operands
\* ops, attrs being the constant attributes of the operands.
AffineApplyFold(m, ops, attrs) ==
    IF isBare(m.results[1], "d")
    THEN OpFoldResult("value", ops[m.results[1].terms[1].pos + 1],
                      NoAttribute)
    ELSE IF isBare(m.results[1], "s")
    THEN OpFoldResult("value",
                      ops[m.numDims + m.results[1].terms[1].pos + 1],
                      NoAttribute)
    ELSE IF ~constantFold(m, attrs).succeeded
    THEN OpFoldResult("null", 0, NoAttribute)
    ELSE OpFoldResult("attribute", 0, constantFold(m, attrs).results[1])

\* The fold hook of a single-result operation: failure on a null result,
\* otherwise the result is pushed.
foldHook(result) ==
    IF result.kind = "null" THEN [succeeded |-> FALSE, results |-> <<>>]
    ELSE [succeeded |-> TRUE, results |-> <<result>>]

\* The dialects there are, and the operations each registers when it is
\* registered in the context.
Dialects == {"affine", "toy"}
RegisteredOperations == {"affine.apply", "toy.mul"}
OperationNames == RegisteredOperations \cup {"affine.opaque", "toy.opaque"}
\* OperationName::getDialect: the prefix of the name.
dialectOf(name) == IF name \in {"affine.apply", "affine.opaque"}
                   THEN "affine" ELSE "toy"

\* AbstractOperation::lookup as OperationName::OperationName uses it: the
\* descriptor the name resolves to in a context, if any.
getAbstractOperation(name, context) ==
    name \in RegisteredOperations /\ dialectOf(name) \in context

\* A getDialect that looks in the context only for registered operations.
getDialectOfRegistered(name, context) == getAbstractOperation(name, context)

\* Operation::getDialect() # nullptr.
getDialect(name, context) ==
    IF getAbstractOperation(name, context) THEN TRUE
    ELSE dialectOf(name) \in context

\* Operation::fold with the dialect hook tried first.
operationFoldDialectFirst(name, context, opHook, dialectHook) ==
    IF getDialect(name, context) /\ dialectHook.succeeded
    THEN [succeeded |-> TRUE, consulted |-> <<"constantFoldHook">>,
          results |-> [i \in 1..Len(dialectHook.results) |->
                         OpFoldResult("attribute", 0, dialectHook.results[i])],
          diagnostics |-> <<>>]
    ELSE [succeeded |-> getAbstractOperation(name, context)
                        /\ opHook.succeeded,
          consulted |-> <<"constantFoldHook", "foldHook">>,
          results |-> IF getAbstractOperation(name, context)
                      THEN opHook.results ELSE <<>>,
          diagnostics |-> <<>>]

\* Operation::fold(operands, results) on an operation called name in a
\* context (the set of registered dialects); opHook and dialectHook are what
\* the hooks answer when they are called.  consulted lists the hooks called.
operationFold(name, context, opHook, dialectHook) ==
    IF getAbstractOperation(name, context) /\ opHook.succeeded
    THEN [succeeded |-> TRUE, consulted |-> <<"foldHook">>,
          results |-> opHook.results, diagnostics |-> <<>>]
    ELSE IF ~getDialect(name, context)
    THEN [succeeded |-> FALSE,
          consulted |-> IF getAbstractOperation(name, context)
                        THEN <<"foldHook">> ELSE <<>>,
          results |-> <<>>, diagnostics |-> <<>>]
    ELSE [succeeded |-> dialectHook.succeeded,
          consulted |-> (IF getAbstractOperation(name, context)
                         THEN <<"foldHook">> ELSE <<>>)
                        \o <<"constantFoldHook">>,
          results |-> [i \in 1..Len(dialectHook.results) |->
                         OpFoldResult("attribute", 0, dialectHook.results[i])],
          diagnostics |-> <<>>]

\* What a hook can answer: failure, or success with one constant.
HookAnswers ==
    {[succeeded |-> FALSE, results |-> <<>>]}
    \cup {[succeeded |-> TRUE, results |-> <<c>>] : c \in ConstantAttrs}

FoldInit == foldCall = [api |-> "none"]

\* AffineApplyOp::fold is called on an affine.apply that verifies; an operand
\* defined at the top level may be a constant.
FoldApply ==
    /\ \E m \in FoldCatalogue : \E ops \in [1..getNumInputs(m) -> Leaves] :
       \E consts \in [TopLevel -> ConstantAttrs \cup {NoAttribute}] :
       \E attrs \in {[i \in 1..Len(ops) |->
                        IF ops[i] \in TopLevel THEN consts[ops[i]]
                        ELSE NoAttribute]} :
          /\ AffineApplyVerify(m, ops)
          /\ foldCall' = [api |-> "AffineApplyOp::fold", map |-> m,
                          operands |-> ops, attrs |-> attrs,
                          result |-> AffineApplyFold(m, ops, attrs)]
    /\ UNCHANGED outsideFold

\* Operation::fold is called on an operation of a context.  The fold hook of
\* affine.apply is AffineApplyOp::fold; the other hooks answer anything.
FoldOperation ==
    /\ \E name \in OperationNames : \E context \in SUBSET Dialects :
       \E dialectHook \in HookAnswers :
       \E opHook \in
            IF name = "affine.apply"
            THEN {foldHook(AffineApplyFold(MapDimPlusSymbol, <<1, 2>>, a)) :
                     a \in {<<NoAttribute, NoAttribute>>,
                            <<NoAttribute, IntegerAttr(5)>>,
                            <<IntegerAttr(5), IntegerAttr(5)>>}}
            ELSE {foldHook(OpFoldResult("attribute", 0, h.results[1])) :
                     h \in {x \in HookAnswers : x.succeeded}}
                 \cup {foldHook(OpFoldResult("null", 0, NoAttribute))} :
          foldCall' = [api |-> "Operation::fold", name |-> name,
                       context |-> context, opHook |-> opHook,
                       dialectHook |-> dialectHook,
                       result |-> operationFold(name, context, opHook,
                                                dialectHook)]
    /\ UNCHANGED outsideFold

(* ------------------------------------------------------------------ *)
(* Values, uses and blocks of the generic IR                           *)
(* ------------------------------------------------------------------ *)

\* Number of operations that Operation::create is asked for by callers.
MaxCreated == 2
\* Longest operand list a caller passes to Operation::create, the null
\* sentinels counted.
MaxOperandArgs == 3
\* Longest successor list a caller passes to Operation::create.
MaxSuccessors == 2
\* Number of calls that rewrite operands, or that clone any operation with
\* any mapping.
MaxCalls == 1
\* Number of calls that clone, the repeated clone of an operation counted.
MaxClones == MaxCalls + 1
\* Longest operand list of an operation that is built into a block.
MaxBuildOperands == 2
\* Number of blocks put into a region.
MaxBlocksPerRegion == 2

IRValue(kind, owner, index) ==
    [kind |-> kind, owner |-> owner, index |-> index]

\* A null Value pointer: the sentinel of the operand lists.
NullValue == IRValue("null", 0, 0)
OpResult(op, i) == IRValue("result", op, i)
BlockArgument(block, i) == IRValue("argument", block, i)

\* The OpOperand at a position of the operand storage of an operation.
OpOperand(owner, slot) == [owner |-> owner, slot |-> slot]

\* A Block in region `region` of parentOp (0: a block of the function body).
NewBlock(parentOp, region, numArguments) ==
    [parentOp |-> parentOp, region |-> region,
     numArguments |-> numArguments, operations |-> <<>>]

\* The operations, blocks and use lists together.
IR == [operations |-> operations, blocks |-> blocks, useList |-> useList]

IRValues(ir) == DOMAIN ir.useList

\* IROperand::insertIntoCurrent: a use enters the list of its Value at the
\* head.
insertIntoCurrent(uses, v, use) == [uses EXCEPT ![v] = <<use>> \o @]

\* IROperand::removeFromCurrent.
removeFromCurrent(uses, v, use) ==
    [uses EXCEPT ![v] = SelectSeq(@, LAMBDA u : u # use)]

\* IROperand::set on the operand `slot` of op.
setOperand(ir, op, slot, to) ==
    [ir EXCEPT
        !.operations[op].operands[slot] = to,
        !.useList = insertIntoCurrent(
            removeFromCurrent(@, ir.operations[op].operands[slot],
                              OpOperand(op, slot)),
            to, OpOperand(op, slot))]

(* ------------------------------------------------------------------ *)
(* Operation::create                                                   *)
(* ------------------------------------------------------------------ *)

\* The registered operations that are no terminators.
KnownNonTerminators == {"std.addf", "loop.for"}

\* Operation::isKnownNonTerminator.
isKnownNonTerminator(name) == name \in KnownNonTerminators

\* What callers ask for: name, number of result types, attributes and
\* number of regions.
OperationStates ==
    {[name |-> "std.addf", numResults |-> 1,
      attributes |-> {"fastmath"}, numRegions |-> 0],
     [name |-> "std.cond_br", numResults |-> 0,
      attributes |-> {}, numRegions |-> 0],
     [name |-> "loop.for", numResults |-> 1,
      attributes |-> {"step"}, numRegions |-> 1]}

\* Lines 174-182 of create: the operands before the first null, which the
\* loop constructs as normal operands.
leadingOperands(operandsArg) ==
    SubSeq(operandsArg, 1, FirstPos(operandsArg, NullValue, 1))

\* Lines 197-218 of create from operandIt on.  st holds the OpOperands and
\* BlockOperands constructed, the per-successor operand counts,
\* currentSuccNum and whether the assertions held.
RECURSIVE successorOperandsLoop(_, _, _, _)
successorOperandsLoop(operandsArg, successorsArg, operandIt, st) ==
    IF operandIt > Len(operandsArg) THEN st
    ELSE successorOperandsLoop(operandsArg, successorsArg, operandIt + 1,
            IF operandsArg[operandIt] = NullValue
            THEN [st EXCEPT
                    !.accepted = @ /\ st.currentSuccNum < Len(successorsArg),
                    !.successors =
                        IF st.currentSuccNum < Len(successorsArg)
                        THEN Append(@, successorsArg[st.currentSuccNum + 1])
                        ELSE @,
                    !.succOperandCount = Append(@, 0),
                    !.currentSuccNum = @ + 1]
            ELSE [st EXCEPT
                    !.operands = Append(@, operandsArg[operandIt]),
                    !.succOperandCount[Len(st.succOperandCount)] = @ + 1])

\* Lines 220-224 of create: the last assertion.
withSuccessors(successorsArg, st) ==
    [st EXCEPT
        !.accepted = @ /\ st.currentSuccNum = Len(successorsArg)]

\* Lines 155-224 of create: what the loops construct and whether every
\* assertion holds.
constructOperands(name, operandsArg, successorsArg, leading) ==
    IF Len(leading) = Len(operandsArg)
    THEN [operands |-> leading, successors |-> <<>>,
          succOperandCount |-> [i \in 1..Len(successorsArg) |-> 0],
          currentSuccNum |-> 0,
          accepted |-> /\ (Len(successorsArg) = 0
                           \/ ~isKnownNonTerminator(name))
                       /\ 0 = Len(successorsArg)]
    ELSE withSuccessors(successorsArg,
            successorOperandsLoop(operandsArg, successorsArg,
                Len(leading) + 1,
                [operands |-> leading, successors |-> <<>>,
                 succOperandCount |-> <<>>, currentSuccNum |-> 0,
                 accepted |-> ~isKnownNonTerminator(name)]))

\* The OpResults of a new operation are Values without uses.
withResults(uses, op, numResults) ==
    [v \in DOMAIN uses \cup {OpResult(op, i) : i \in 1..numResults} |->
        IF v \in DOMAIN uses THEN uses[v] ELSE <<>>]

\* The OpOperand constructors, in the order create runs them.
RECURSIVE installUses(_, _, _, _)
installUses(uses, op, opOperands, i) ==
    IF i > Len(opOperands) THEN uses
    ELSE installUses(
            insertIntoCurrent(uses, opOperands[i], OpOperand(op, i)),
            op, opOperands, i + 1)

\* numOperands of line 139 with the null sentinels counted as operands.
numOperandsWithSentinels(operandsArg, successorsArg) == Len(operandsArg)

\* Line 139 of create: the size of the operand storage.  A difference below
\* zero stands for the wrapped unsigned value; the assertions reject these
\* calls.
numOperandsOf(operandsArg, successorsArg) ==
    Len(operandsArg) - Len(successorsArg)

\* The Operation that create leaves, not yet in a block.
newOperation(state, numOperands, made) ==
    [name |-> state.name,
     attrs |-> state.attributes,
     numOperands |-> numOperands,
     operands |-> made.operands,
     numResults |-> state.numResults,
     successors |-> made.successors,
     succOperandCount |-> made.succOperandCount,
     regions |-> [i \in 1..state.numRegions |-> <<>>],
     block |-> 0]

installOperation(ir, state, numOperands, made) ==
    [ir |-> [operations |->
                Append(ir.operations,
                       newOperation(state, numOperands, made)),
             blocks |-> ir.blocks,
             useList |->
                installUses(
                    withResults(ir.useList, Len(ir.operations) + 1,
                                state.numResults),
                    Len(ir.operations) + 1, made.operands, 1)],
     op |-> Len(ir.operations) + 1,
     accepted |-> made.accepted]

\* Operation::create.
create(ir, state, operandsArg, successorsArg) ==
    installOperation(ir, state, numOperandsOf(operandsArg, successorsArg),
        constructOperands(state.name, operandsArg, successorsArg,
                          leadingOperands(operandsArg)))

\* Operation::getNumOperands.
getNumOperands(o) == o.numOperands

\* getSuccessorOperandIndex that leaves out the operands of the successor
\* at index.
getSuccessorOperandIndexAfter(o, index) ==
    getNumOperands(o)
        - SeqSum(SubSeq(o.succOperandCount, index + 2,
                        Len(o.succOperandCount)))

\* Operation::getSuccessorOperandIndex (index counts from 0).
getSuccessorOperandIndex(o, index) ==
    getNumOperands(o)
        - SeqSum(SubSeq(o.succOperandCount, index + 1,
                        Len(o.succOperandCount)))

\* Operation::getSuccessorOperands (index counts from 0).
getSuccessorOperands(o, index) ==
    SubSeq(o.operands, getSuccessorOperandIndex(o, index) + 1,
           getSuccessorOperandIndex(o, index)
               + o.succOperandCount[index + 1])

\* Operation::getNonSuccessorOperands.
getNonSuccessorOperands(o) ==
    SubSeq(o.operands, 1,
           IF o.successors # <<>> THEN getSuccessorOperandIndex(o, 0)
           ELSE getNumOperands(o))

(* ------------------------------------------------------------------ *)
(* Rewriting operands                                                  *)
(* ------------------------------------------------------------------ *)

\* Operation::replaceUsesOfWith but for the return on the first operand that
\* was replaced.
RECURSIVE replaceFirstUseLoop(_, _, _, _, _)
replaceFirstUseLoop(ir, op, from, to, i) ==
    IF i > Len(ir.operations[op].operands) THEN ir
    ELSE IF ir.operations[op].operands[i] = from
    THEN setOperand(ir, op, i, to)
    ELSE replaceFirstUseLoop(ir, op, from, to, i + 1)

\* The loop of Operation::replaceUsesOfWith from operand i on.
RECURSIVE replaceUsesLoop(_, _, _, _, _)
replaceUsesLoop(ir, op, from, to, i) ==
    IF i > Len(ir.operations[op].operands) THEN ir
    ELSE replaceUsesLoop(
            IF ir.operations[op].operands[i] = from
            THEN setOperand(ir, op, i, to) ELSE ir,
            op, from, to, i + 1)

\* Operation::replaceUsesOfWith.
replaceUsesOfWith(ir, op, from, to) ==
    IF from = to THEN ir ELSE replaceUsesLoop(ir, op, from, to, 1)

\* Value::replaceAllUsesWith: while the use list is not empty, its first use
\* is set to newValue.
RECURSIVE replaceAllUsesWith(_, _, _)
replaceAllUsesWith(ir, v, newValue) ==
    IF ir.useList[v] = <<>> THEN ir
    ELSE replaceAllUsesWith(
            setOperand(ir, Head(ir.useList[v]).owner,
                       Head(ir.useList[v]).slot, newValue),
            v, newValue)

(* ------------------------------------------------------------------ *)
(* Cloning                                                             *)
(* ------------------------------------------------------------------ *)

\* A BlockAndValueMapping without entries.
EmptyMapping == [values |-> <<>>, blocks |-> <<>>]

\* BlockAndValueMapping::lookupOrDefault on the value map or the block map.
lookupOrDefault(entries, from) ==
    IF from \in DOMAIN entries THEN entries[from] ELSE from

lookupValues(mapper, vs) ==
    [i \in 1..Len(vs) |-> lookupOrDefault(mapper.values, vs[i])]

\* BlockAndValueMapping::map for a Value and for a Block.
mapValue(mapper, from, to) ==
    [mapper EXCEPT !.values = (from :> to) @@ @]
mapBlock(mapper, from, to) ==
    [mapper EXCEPT !.blocks = (from :> to) @@ @]

\* Lines 565-575 of cloneWithoutRegions from successor succ (from 0) on: a
\* null sentinel and the remapped operands of each successor.
RECURSIVE successorOperandGroups(_, _, _)
successorOperandGroups(o, mapper, succ) ==
    IF succ >= Len(o.successors) THEN <<>>
    ELSE <<NullValue>>
         \o lookupValues(mapper, getSuccessorOperands(o, succ))
         \o successorOperandGroups(o, mapper, succ + 1)

\* Lines 551-576 of cloneWithoutRegions: the operand list given to create.
clonedOperands(o, mapper) ==
    IF Len(o.successors) = 0
    THEN lookupValues(mapper, o.operands)
    ELSE lookupValues(mapper,
              SubSeq(o.operands, 1, getSuccessorOperandIndex(o, 0)))
         \o successorOperandGroups(o, mapper, 0)

\* Lines 551-576 of cloneWithoutRegions: the successor list given to create.
clonedSuccessors(o, mapper) ==
    [succ \in 1..Len(o.successors) |->
        lookupOrDefault(mapper.blocks, o.successors[succ])]

\* Lines 585-586 of cloneWithoutRegions: the results are remembered.
RECURSIVE rememberResults(_, _, _, _)
rememberResults(mapper, op, newOp, i) ==
    IF i > 0
    THEN rememberResults(mapValue(mapper, OpResult(op, i), OpResult(newOp, i)),
                         op, newOp, i - 1)
    ELSE mapper

clonedWithoutRegions(created, mapper, op, numResults) ==
    [ir |-> created.ir,
     op |-> created.op,
     accepted |-> created.accepted,
     mapper |-> rememberResults(mapper, op, created.op, numResults)]

\* cloneWithoutRegions with the operands passed on as they are.
cloneWithoutRemapping(ir, op, mapper) ==
    clonedWithoutRegions(
        create(ir,
               [name |-> ir.operations[op].name,
                numResults |-> ir.operations[op].numResults,
                attributes |-> ir.operations[op].attrs,
                numRegions |-> Len(ir.operations[op].regions)],
               clonedOperands(ir.operations[op], EmptyMapping),
               clonedSuccessors(ir.operations[op], mapper)),
        mapper, op, ir.operations[op].numResults)

\* Operation::cloneWithoutRegions(mapper).
cloneWithoutRegions(ir, op, mapper) ==
    clonedWithoutRegions(
        create(ir,
               [name |-> ir.operations[op].name,
                numResults |-> ir.operations[op].numResults,
                attributes |-> ir.operations[op].attrs,
                numRegions |-> Len(ir.operations[op].regions)],
               clonedOperands(ir.operations[op], mapper),
               clonedSuccessors(ir.operations[op], mapper)),
        mapper, op, ir.operations[op].numResults)

\* Block::push_back of the operation st.op at the end of block b.
push_back(st, b) ==
    [st EXCEPT
        !.ir.operations[st.op].block = b,
        !.ir.blocks[b].operations = Append(@, st.op)]

\* The arguments of block b are mapped to the arguments of newBlock.
RECURSIVE mapArguments(_, _, _, _)
mapArguments(mapper, b, newBlock, i) ==
    IF i > 0
    THEN mapArguments(
            mapValue(mapper, BlockArgument(b, i), BlockArgument(newBlock, i)),
            b, newBlock, i - 1)
    ELSE mapper

\* The uses of the arguments of a new block: none.
withArguments(uses, b, numArguments) ==
    [v \in DOMAIN uses \cup {BlockArgument(b, i) : i \in 1..numArguments} |->
        IF v \in DOMAIN uses THEN uses[v] ELSE <<>>]

\* A new block with numArguments arguments at the end of region r of op.
addBlock(ir, op, r, numArguments) ==
    [operations |->
        [ir.operations EXCEPT ![op].regions[r] = Append(@, Len(ir.blocks) + 1)],
     blocks |-> Append(ir.blocks, NewBlock(op, r, numArguments)),
     useList |-> withArguments(ir.useList, Len(ir.blocks) + 1, numArguments)]

\* Region::cloneInto for one block: the new block is made and remembered,
\* and so are its arguments.
addClonedBlock(st, b, newOp, r) ==
    [st EXCEPT
        !.ir = addBlock(@, newOp, r, st.ir.blocks[b].numArguments),
        !.mapper = mapArguments(
            mapBlock(@, b, Len(st.ir.blocks) + 1),
            b, Len(st.ir.blocks) + 1, st.ir.blocks[b].numArguments)]

\* The clone of one operation is accepted if all creates were.
afterClone(st, cloned) ==
    [cloned EXCEPT !.accepted = @ /\ st.accepted]

RECURSIVE clone(_, _, _)

\* Region::cloneInto for the operations of block b from the i-th on: each is
\* cloned with the mapper and put at the end of newBlock.
RECURSIVE cloneOperations(_, _, _, _)
cloneOperations(st, b, newBlock, i) ==
    IF i > Len(st.ir.blocks[b].operations) THEN st
    ELSE cloneOperations(
            push_back(
                afterClone(st, clone(st.ir, st.ir.blocks[b].operations[i],
                                     st.mapper)),
                newBlock),
            b, newBlock, i + 1)

\* Region::cloneInto, the first loop from the i-th block of the region on.
RECURSIVE cloneBlocks(_, _, _, _, _)
cloneBlocks(st, regionBlocks, newOp, r, i) ==
    IF i > Len(regionBlocks) THEN st
    ELSE cloneBlocks(
            cloneOperations(addClonedBlock(st, regionBlocks[i], newOp, r),
                            regionBlocks[i], Len(st.ir.blocks) + 1, 1),
            regionBlocks, newOp, r, i + 1)

\* Region::cloneInto, remapping one operation from operand i on and then its
\* successors: what the mapping has an entry for is set to the entry.
RECURSIVE remapOperands(_, _, _)
remapOperands(st, o, i) ==
    IF i > Len(st.ir.operations[o].operands)
    THEN [st EXCEPT
            !.ir.operations[o].successors =
                [k \in 1..Len(@) |-> lookupOrDefault(st.mapper.blocks, @[k])]]
    ELSE remapOperands(
            [st EXCEPT
                !.ir = IF st.ir.operations[o].operands[i]
                            \in DOMAIN st.mapper.values
                       THEN setOperand(@, o, i,
                              st.mapper.values[st.ir.operations[o].operands[i]])
                       ELSE @],
            o, i + 1)

\* Region::cloneInto, the second loop: the operations cloned into the
\* region, from o on, are remapped.
RECURSIVE remapRegion(_, _)
remapRegion(st, o) ==
    IF o > Len(st.ir.operations) THEN st
    ELSE remapRegion(remapOperands(st, o, 1), o + 1)

\* Region::cloneInto(dest, mapper) for region r of the operation cloned to
\* newOp.
cloneInto(st, regionBlocks, newOp, r) ==
    remapRegion(cloneBlocks(st, regionBlocks, newOp, r, 1),
                Len(st.ir.operations) + 1)

\* Lines 605-607 of clone: the regions from the r-th on are cloned into the
\* regions of newOp.
RECURSIVE cloneRegions(_, _, _, _)
cloneRegions(st, op, newOp, r) ==
    IF r > Len(st.ir.operations[op].regions) THEN [st EXCEPT !.op = newOp]
    ELSE cloneRegions(
            cloneInto(st, st.ir.operations[op].regions[r], newOp, r),
            op, newOp, r + 1)

\* Operation::clone without the loop over the regions.
cloneOnlyOperation(ir, op, mapper) == cloneWithoutRegions(ir, op, mapper)

\* Operation::clone(mapper).
clone(ir, op, mapper) ==
    cloneRegions(cloneWithoutRegions(ir, op, mapper), op,
                 Len(ir.operations) + 1, 1)

(* ------------------------------------------------------------------ *)
(* Verification of terminators                                         *)
(* ------------------------------------------------------------------ *)

\* The types of the Values.
Types == {"index", "i1"}

\* A LogicalResult with the diagnostic emitted on failure.
success == [succeeded |-> TRUE, diagnostic |-> <<>>]
failure(diagnostic) == [succeeded |-> FALSE, diagnostic |-> diagnostic]

\* Block::getParent: the region a block is in, as <<operation, region>>
\* (<<0, 0>> is the function body).
getParent(ir, b) == <<ir.blocks[b].parentOp, ir.blocks[b].region>>

\* Operation::getContainingRegion of an operation that is in a block.
getContainingRegion(ir, op) == getParent(ir, ir.operations[op].block)

\* verifyBBArguments with the counts compared but not the types.
verifyBBArgumentCount(ir, types, succOperands, destBB) ==
    IF Len(succOperands) # ir.blocks[destBB].numArguments
    THEN failure(<<"branch has ", Len(succOperands),
                   " operands, but target block has ",
                   ir.blocks[destBB].numArguments>>)
    ELSE success

\* verifyBBArguments: types gives the type of every Value.
verifyBBArguments(ir, types, succOperands, destBB) ==
    IF Len(succOperands) # ir.blocks[destBB].numArguments
    THEN failure(<<"branch has ", Len(succOperands),
                   " operands, but target block has ",
                   ir.blocks[destBB].numArguments>>)
    ELSE IF \E i \in 1..Len(succOperands) :
               types[succOperands[i]] # types[BlockArgument(destBB, i)]
    THEN failure(<<"type mismatch in bb argument #",
                   (CHOOSE i \in 1..Len(succOperands) :
                      /\ types[succOperands[i]]
                            # types[BlockArgument(destBB, i)]
                      /\ \A j \in 1..(i - 1) :
                            types[succOperands[j]]
                               = types[BlockArgument(destBB, j)]) - 1>>)
    ELSE success

\* The loop of verifyTerminatorSuccessors from successor i on (i counts
\* from 0).
RECURSIVE verifyTerminatorSuccessors(_, _, _, _)
verifyTerminatorSuccessors(ir, types, op, i) ==
    IF i >= Len(ir.operations[op].successors) THEN success
    ELSE IF getParent(ir, ir.operations[op].successors[i + 1])
               # getContainingRegion(ir, op)
    THEN failure(<<"reference to block defined in another region">>)
    ELSE IF ~verifyBBArguments(ir, types,
                 getSuccessorOperands(ir.operations[op], i),
                 ir.operations[op].successors[i + 1]).succeeded
    THEN verifyBBArguments(ir, types,
             getSuccessorOperands(ir.operations[op], i),
             ir.operations[op].successors[i + 1])
    ELSE verifyTerminatorSuccessors(ir, types, op, i + 1)

\* verifyIsTerminator that compares with the front of the block.
verifyIsTerminatorAtFront(ir, types, op) ==
    IF \/ ir.operations[op].block = 0
       \/ ir.blocks[ir.operations[op].block].operations[1] # op
    THEN failure(<<"'", ir.operations[op].name, "' op ",
                   "must be the last operation in the parent block">>)
    ELSE IF Len(ir.operations[op].successors) # 0
    THEN verifyTerminatorSuccessors(ir, types, op, 0)
    ELSE success

\* OpTrait::impl::verifyIsTerminator.
verifyIsTerminator(ir, types, op) ==
    IF \/ ir.operations[op].block = 0
       \/ ir.blocks[ir.operations[op].block].operations[
              Len(ir.blocks[ir.operations[op].block].operations)] # op
    THEN failure(<<"'", ir.operations[op].name, "' op ",
                   "must be the last operation in the parent block">>)
    ELSE IF Len(ir.operations[op].successors) # 0
    THEN verifyTerminatorSuccessors(ir, types, op, 0)
    ELSE success

(* ------------------------------------------------------------------ *)
(* The generic trait checks                                            *)
(* ------------------------------------------------------------------ *)

\* The operands and the results of the operations that are checked.
MaxTraitOperands == 2
MaxTraitResults == 2

\* A type: a scalar, or a ShapedType with its element type and, when it is
\* ranked, its shape.
ScalarType(element) ==
    [shaped |-> FALSE, ranked |-> FALSE, shape |-> <<>>, element |-> element]
TensorType(shape, element) ==
    [shaped |-> TRUE, ranked |-> TRUE, shape |-> shape, element |-> element]
UnrankedTensorType(element) ==
    [shaped |-> TRUE, ranked |-> FALSE, shape |-> <<>>, element |-> element]

TraitTypes ==
    {ScalarType("i32"), ScalarType("f32"), TensorType(<<2>>, "i32"),
     TensorType(<<3>>, "i32"), TensorType(<<2>>, "f32"),
     UnrankedTensorType("i32")}

\* An operation as the checks see it: the types of its operands and results.
TraitOp(operandTypes, resultTypes) ==
    [operandTypes |-> operandTypes, resultTypes |-> resultTypes]

\* op->emitOpError() << message, as the LogicalResult it converts to.
emitOpError(message) == failure(<<message>>)

\* OpTrait::impl::verifyZeroOperands.
verifyZeroOperands(op) ==
    IF Len(op.operandTypes) # 0 THEN emitOpError("requires zero operands")
    ELSE success

\* OpTrait::impl::verifyOneResult.
verifyOneResult(op) ==
    IF Len(op.resultTypes) # 1 THEN emitOpError("requires one result")
    ELSE success

\* OpTrait::impl::verifySameTypeOperands.
verifySameTypeOperands(op) ==
    IF Len(op.operandTypes) < 2 THEN success
    ELSE IF \E i \in 2..Len(op.operandTypes) :
                op.operandTypes[i] # op.operandTypes[1]
    THEN emitOpError("requires all operands to have the same type")
    ELSE success

\* verifyShapeMatch: a static helper that emits nothing.
verifyShapeMatch(type1, type2) ==
    IF ~type1.shaped THEN ~type2.shaped
    ELSE IF ~type2.shaped THEN FALSE
    ELSE IF ~type1.ranked \/ ~type2.ranked THEN TRUE
    ELSE type1.shape = type2.shape

\* The first lines of the three checks below (776-777, 795-796, 827-828).
hasNoOperandsOrResults(op) ==
    IF Len(op.operandTypes) = 0 \/ Len(op.resultTypes) = 0
    THEN failure(<<>>)
    ELSE success

\* OpTrait::impl::verifySameOperandsAndResultShape.
verifySameOperandsAndResultShape(op) ==
    IF ~hasNoOperandsOrResults(op).succeeded THEN hasNoOperandsOrResults(op)
    ELSE IF \/ \E i \in 1..Len(op.resultTypes) :
                ~verifyShapeMatch(op.resultTypes[i], op.operandTypes[1])
            \/ \E i \in 2..Len(op.operandTypes) :
                ~verifyShapeMatch(op.operandTypes[i], op.operandTypes[1])
    THEN emitOpError("requires the same shape for all operands and results")
    ELSE success

\* The loops of verifySameOperandsAndResultElementType over the types from
\* position i on: the first type that is not shaped, or whose element type
\* differs, ends the check.
RECURSIVE elementTypesMatch(_, _, _, _)
elementTypesMatch(types, i, elementType, notShaped) ==
    IF i > Len(types) THEN success
    ELSE IF ~types[i].shaped THEN emitOpError(notShaped)
    ELSE IF types[i].element # elementType
    THEN emitOpError(
        "requires the same element type for all operands and results")
    ELSE elementTypesMatch(types, i + 1, elementType, notShaped)

\* OpTrait::impl::verifySameOperandsAndResultElementType.
verifySameOperandsAndResultElementType(op) ==
    IF ~hasNoOperandsOrResults(op).succeeded THEN hasNoOperandsOrResults(op)
    ELSE IF ~op.resultTypes[1].shaped
    THEN emitOpError("requires shaped type results")
    ELSE IF ~elementTypesMatch(op.resultTypes, 2, op.resultTypes[1].element,
                "requires shaped type results").succeeded
    THEN elementTypesMatch(op.resultTypes, 2, op.resultTypes[1].element,
            "requires shaped type results")
    ELSE elementTypesMatch(op.operandTypes, 1, op.resultTypes[1].element,
            "requires shaped type operands")

\* OpTrait::impl::verifySameOperandsAndResultType.
verifySameOperandsAndResultType(op) ==
    IF ~hasNoOperandsOrResults(op).succeeded THEN hasNoOperandsOrResults(op)
    ELSE IF \/ \E i \in 2..Len(op.resultTypes) :
                op.resultTypes[i] # op.resultTypes[1]
            \/ \E i \in 1..Len(op.operandTypes) :
                op.operandTypes[i] # op.resultTypes[1]
    THEN emitOpError("requires the same type for all operands and results")
    ELSE success

\* The checks that are called.
TraitChecks ==
    {"ZeroOperands", "OneResult", "SameTypeOperands",
     "SameOperandsAndResultShape", "SameOperandsAndResultElementType",
     "SameOperandsAndResultType"}

\* The check of a trait on op.
verifyTrait(check, op) ==
    CASE check = "ZeroOperands" -> verifyZeroOperands(op)
      [] check = "OneResult" -> verifyOneResult(op)
      [] check = "SameTypeOperands" -> verifySameTypeOperands(op)
      [] check = "SameOperandsAndResultShape" ->
            verifySameOperandsAndResultShape(op)
      [] check = "SameOperandsAndResultElementType" ->
            verifySameOperandsAndResultElementType(op)
      [] check = "SameOperandsAndResultType" ->
            verifySameOperandsAndResultType(op)

\* The lists of at most n types.
RECURSIVE TypeLists(_)
TypeLists(n) ==
    IF n = 0 THEN {<<>>}
    ELSE TypeLists(n - 1)
         \cup {Append(l, t) : l \in {k \in TypeLists(n - 1) : Len(k) = n - 1},
                              t \in TraitTypes}

TraitInit ==
    traitCall = [check |-> "none", op |-> TraitOp(<<>>, <<>>),
                 result |-> success]

\* A trait check is called on an operation; a run follows one call.
VerifyTrait ==
    /\ traitCall.check = "none"
    /\ \E check \in TraitChecks, operandTypes \in TypeLists(MaxTraitOperands),
          resultTypes \in TypeLists(MaxTraitResults) :
            traitCall' =
                [check |-> check, op |-> TraitOp(operandTypes, resultTypes),
                 result |-> verifyTrait(check,
                                TraitOp(operandTypes, resultTypes))]
    /\ UNCHANGED outsideTraits

(* ------------------------------------------------------------------ *)
(* Erasing operations                                                  *)
(* ------------------------------------------------------------------ *)

\* The operations in the regions of op, at any depth, and op itself.
RECURSIVE opsWithin(_, _)
opsWithin(ir, op) ==
    {op} \cup UNION {opsWithin(ir, c) :
                       c \in {c \in 1..Len(ir.operations) :
                                /\ ir.operations[c].block # 0
                                /\ ir.blocks[ir.operations[c].block].parentOp
                                      = op}}

\* iplist::remove with ilist_traits::removeNodeFromList: the operation
\* leaves the list of its block and its block pointer is cleared.
removeNodeFromList(ir, op) ==
    [ir EXCEPT
        !.blocks[ir.operations[op].block].operations =
            SelectSeq(@, LAMBDA x : x # op),
        !.operations[op].block = 0]

\* Operation::destroy: the destructor asserts that the operation is in no
\* block, then destroys its operands (their uses leave the use lists) and
\* its regions with the operations inside.
destroy(ir, op) ==
    [ir |-> [ir EXCEPT
                !.useList =
                    [v \in DOMAIN ir.useList |->
                        SelectSeq(ir.useList[v],
                            LAMBDA u : u.owner \notin opsWithin(ir, op))]],
     destroyed |-> opsWithin(ir, op),
     assertHeld |-> ir.operations[op].block = 0]

\* An erase that destroys the operation where it is.
eraseWithoutUnlinking(ir, op) == destroy(ir, op)

\* Operation::erase: parent->getOperations().erase(this) removes the node
\* from the list and then deletes it (deleteNode calls destroy).
erase(ir, op) ==
    IF ir.operations[op].block # 0
    THEN destroy(removeNodeFromList(ir, op), op)
    ELSE destroy(ir, op)

(* ------------------------------------------------------------------ *)
(* Region terminators                                                  *)
(* ------------------------------------------------------------------ *)

\* The registered operations with the IsTerminator property.
KnownTerminators == {"std.cond_br", "affine.terminator"}

\* Operation::isKnownTerminator.
isKnownTerminator(name) == name \in KnownTerminators

\* What buildTerminatorOp creates: the terminator of the region.
TerminatorStates ==
    {[name |-> "affine.terminator", numResults |-> 0,
      attributes |-> {}, numRegions |-> 0]}

\* region.back() of region r of op, the region not being empty.
back(ir, op, r) ==
    ir.operations[op].regions[r][Len(ir.operations[op].regions[r])]

\* Whether the block ends in a known terminator (line 1007).
endsInKnownTerminator(ir, b) ==
    /\ ir.blocks[b].operations # <<>>
    /\ isKnownTerminator(
          ir.operations[ir.blocks[b].operations[
              Len(ir.blocks[b].operations)]].name)

\* Lines 1006-1010 without the early return.
appendTerminatorAlways(ir, op, r, state) ==
    [ir |-> push_back(create(ir, state, <<>>, <<>>), back(ir, op, r)).ir,
     builds |-> 1]

\* Lines 1006-1010 of ensureRegionTerminator, the region having a block.
appendTerminator(ir, op, r, state) ==
    IF endsInKnownTerminator(ir, back(ir, op, r))
    THEN [ir |-> ir, builds |-> 0]
    ELSE [ir |-> push_back(create(ir, state, <<>>, <<>>),
                           back(ir, op, r)).ir,
          builds |-> 1]

\* impl::ensureRegionTerminator on region r of op; buildTerminatorOp
\* creates an operation from state.  builds counts its calls.
ensureRegionTerminator(ir, op, r, state) ==
    appendTerminator(
        IF ir.operations[op].regions[r] = <<>>
        THEN addBlock(ir, op, r, 0) ELSE ir,
        op, r, state)

(* ------------------------------------------------------------------ *)
(* OperationFolder                                                     *)
(* ------------------------------------------------------------------ *)

\* The operations with a result and the loops that are made through the
\* folder in a run.
MaxFolderCreates == 2
MaxLoops == 1
\* The operations notifyRemoval is called on in a run.
MaxNotified == 1

\* What OpBuilder::create is asked for through the folder: two operations
\* with a result, and a loop with a region and no result.
FolderStates ==
    {[name |-> "toy.mul", numResults |-> 1,
      attributes |-> {}, numRegions |-> 0],
     [name |-> "affine.apply", numResults |-> 1,
      attributes |-> {}, numRegions |-> 0],
     [name |-> "affine.for", numResults |-> 0,
      attributes |-> {}, numRegions |-> 1]}

\* The constant operation the dialects materialize.
ConstantState ==
    [name |-> "toy.constant", numResults |-> 1,
     attributes |-> {"value"}, numRegions |-> 0]

\* The IR with the tables of an OperationFolder.
FolderState ==
    [ir |-> IR, foldScopes |-> foldScopes,
     referencedDialects |-> referencedDialects, info |-> info,
     freed |-> freed]

\* The region the constants of op are put into: the region op is in.
getInsertionRegion(ir, op) == getContainingRegion(ir, op)

\* The first block of a region; block 1 is the entry block of the function.
front(ir, region) ==
    IF region[1] = 0 THEN 1
    ELSE ir.operations[region[1]].regions[region[2]][1]

\* Block::push_front of the operation st.op.
push_front(st, b) ==
    [st EXCEPT
        !.ir.operations[st.op].block = b,
        !.ir.blocks[b].operations = <<st.op>> \o @]

\* The dialects that reference op.
dialectsOf(refs, op) == {e.dialect : e \in {x \in refs : x.op = op}}

\* The entries of a ConstantMap under a key.
entriesAt(scopes, region, dialect, value, type) ==
    {e \in scopes : /\ e.region = region
                    /\ e.dialect = dialect
                    /\ e.value = value
                    /\ e.type = type}

\* ConstantMap::lookup: the operation under the key, 0 when there is none.
lookupConstant(scopes, region, dialect, value, type) ==
    IF entriesAt(scopes, region, dialect, value, type) = {} THEN 0
    ELSE (CHOOSE e \in entriesAt(scopes, region, dialect, value, type) :
             TRUE).op

\* ConstantMap::operator[] assigned: the key refers to op.
insertConstant(scopes, region, dialect, value, type, op) ==
    (scopes \ entriesAt(scopes, region, dialect, value, type))
    \cup {[region |-> region, dialect |-> dialect, value |-> value,
           type |-> type, op |-> op]}

\* Dialect::materializeConstant with a builder at the start of the entry
\* block of the region: a constant operation is made.
materializeConstant(f, region, value, type) ==
    [f EXCEPT
        !.ir = push_front(create(f.ir, ConstantState, <<>>, <<>>),
                          front(f.ir, region)).ir,
        !.info = Append(@, [type |-> type, value |-> value])]

\* Operation::erase by or next to the folder: what is destroyed is freed.
eraseIn(f, op) ==
    [f EXCEPT !.ir = erase(f.ir, op).ir,
              !.freed = @ \cup erase(f.ir, op).destroyed]

\* The constant was materialized in the dialect that asked for it.
uniquedInDialect(f, region, dialect, value, type, op) ==
    [f EXCEPT
        !.foldScopes = insertConstant(@, region, dialect, value, type, op),
        !.referencedDialects = @ \cup {[op |-> op, dialect |-> dialect]}]

\* The constant was materialized in another dialect, newDialect.  When that
\* dialect has the constant already, the new operation is erased and the
\* existing one is referenced; otherwise both keys refer to the new one.
uniquedInOtherDialect(f, region, dialect, newDialect, value, type, op) ==
    IF lookupConstant(f.foldScopes, region, newDialect, value, type) # 0
    THEN [f |-> [eraseIn(f, op) EXCEPT
                    !.foldScopes =
                        insertConstant(@, region, dialect, value, type,
                            lookupConstant(f.foldScopes, region, newDialect,
                                           value, type)),
                    !.referencedDialects =
                        @ \cup {[op |-> lookupConstant(f.foldScopes, region,
                                            newDialect, value, type),
                                 dialect |-> dialect]}],
          op |-> lookupConstant(f.foldScopes, region, newDialect, value,
                                type)]
    ELSE [f |-> [f EXCEPT
                    !.foldScopes =
                        insertConstant(
                            insertConstant(@, region, dialect, value, type,
                                           op),
                            region, newDialect, value, type, op),
                    !.referencedDialects =
                        @ \cup {[op |-> op, dialect |-> dialect],
                                [op |-> op, dialect |-> newDialect]}],
          op |-> op]

\* A tryGetOrCreateConstant that never looks for an existing constant.
tryGetOrCreateConstantAlwaysNew(f, region, dialect, value, type, materializes) ==
    IF ~materializes THEN [f |-> f, op |-> 0]
    ELSE [f |-> uniquedInDialect(materializeConstant(f, region, value, type),
                    region, dialect, value, type, Len(f.ir.operations) + 1),
          op |-> Len(f.ir.operations) + 1]

\* OperationFolder::tryGetOrCreateConstant: the constant under the key when
\* there is one, a new one otherwise; op is 0 when the dialect does not
\* materialize the constant.
tryGetOrCreateConstant(f, region, dialect, value, type, materializes) ==
    IF lookupConstant(f.foldScopes, region, dialect, value, type) # 0
    THEN [f |-> f,
          op |-> lookupConstant(f.foldScopes, region, dialect, value, type)]
    ELSE IF ~materializes THEN [f |-> f, op |-> 0]
    ELSE IF dialectOf(ConstantState.name) = dialect
    THEN [f |-> uniquedInDialect(materializeConstant(f, region, value, type),
                    region, dialect, value, type, Len(f.ir.operations) + 1),
          op |-> Len(f.ir.operations) + 1]
    ELSE uniquedInOtherDialect(materializeConstant(f, region, value, type),
            region, dialect, dialectOf(ConstantState.name), value, type,
            Len(f.ir.operations) + 1)

\* The results of a fold that found a constant, or failure when none was
\* materialized.
constantResult(made) ==
    [f |-> made.f, succeeded |-> made.op # 0,
     results |-> IF made.op # 0 THEN <<OpResult(made.op, 1)>> ELSE <<>>]

\* OperationFolder::tryToFold(op, results): folded is what Operation::fold
\* answers for op, which has at most one result.
tryToFoldResults(f, op, folded, materializes) ==
    IF ~folded.succeeded \/ folded.results = <<>>
    THEN [f |-> f, succeeded |-> folded.succeeded, results |-> <<>>]
    ELSE IF folded.results[1].kind = "value"
    THEN [f |-> f, succeeded |-> TRUE,
          results |-> <<folded.results[1].value>>]
    ELSE constantResult(
            tryGetOrCreateConstant(f, getInsertionRegion(f.ir, op),
                dialectOf(f.ir.operations[op].name),
                folded.results[1].attribute, f.info[op].type,
                materializes))

\* The results of op replace its result and op is erased, unless there are
\* no results: the operation was updated in place.
replaceAndErase(t, op) ==
    IF t.results = <<>> THEN t.f
    ELSE eraseIn([t.f EXCEPT
                    !.ir = replaceAllUsesWith(@, OpResult(op, 1),
                                              t.results[1])],
                 op)

\* OperationFolder::tryToFold(op): a uniqued constant is not folded again;
\* a fold that succeeds replaces the uses of op and erases it.
tryToFold(f, op, folded, materializes) ==
    IF dialectsOf(f.referencedDialects, op) # {}
    THEN [f |-> f, succeeded |-> FALSE]
    ELSE IF ~tryToFoldResults(f, op, folded, materializes).succeeded
    THEN [f |-> tryToFoldResults(f, op, folded, materializes).f,
          succeeded |-> FALSE]
    ELSE [f |-> replaceAndErase(
                    tryToFoldResults(f, op, folded, materializes), op),
          succeeded |-> TRUE]

\* A notifyRemoval that forgets the dialects and keeps the constant maps.
notifyRemovalKeepsMaps(f, op) ==
    [f EXCEPT !.referencedDialects = {e \in @ : e.op # op}]

\* OperationFolder::notifyRemoval: the keys of every dialect that references
\* op leave the map of its insertion region, and op the referenced dialects.
notifyRemoval(f, op) ==
    IF dialectsOf(f.referencedDialects, op) = {} THEN f
    ELSE [f EXCEPT
            !.foldScopes =
                {e \in @ :
                    ~(/\ e.region = getInsertionRegion(f.ir, op)
                      /\ e.dialect \in dialectsOf(f.referencedDialects, op)
                      /\ e.value = f.info[op].value
                      /\ e.type = f.info[op].type)},
            !.referencedDialects = {e \in @ : e.op # op}]

\* OpBuilder::create at the end of block b; the build of affine.for ensures
\* the terminator of its region.
builderCreate(f, state, type, operandsArg, b) ==
    [f |-> [f EXCEPT
              !.ir = IF state.numRegions = 0
                     THEN push_back(create(f.ir, state, operandsArg, <<>>),
                                    b).ir
                     ELSE ensureRegionTerminator(
                             push_back(create(f.ir, state, operandsArg,
                                              <<>>), b).ir,
                             Len(f.ir.operations) + 1, 1,
                             CHOOSE t \in TerminatorStates : TRUE).ir,
              !.info = @ \o [i \in 1..(IF state.numRegions = 0 THEN 1 ELSE 2)
                               |-> [type |-> type, value |-> NoAttribute]]],
     op |-> Len(f.ir.operations) + 1]

\* The results of an operation.
getResults(ir, op) == [i \in 1..ir.operations[op].numResults |-> OpResult(op, i)]

\* Lines 64-67 with an erase whenever the fold succeeded.
createdAndFoldedErasing(t, op) ==
    IF ~t.succeeded
    THEN [f |-> t.f, op |-> op, results |-> getResults(t.f.ir, op),
          erased |-> FALSE]
    ELSE [f |-> eraseIn(t.f, op), op |-> op, results |-> t.results,
          erased |-> TRUE]

\* Lines 64-67 of OperationFolder::create: t is what tryToFold(op, results)
\* answered.
createdAndFolded(t, op) ==
    IF ~t.succeeded
    THEN [f |-> t.f, op |-> op, results |-> getResults(t.f.ir, op),
          erased |-> FALSE]
    ELSE IF t.f.ir.operations[op].numResults # 0
    THEN [f |-> eraseIn(t.f, op), op |-> op, results |-> t.results,
          erased |-> TRUE]
    ELSE [f |-> t.f, op |-> op, results |-> t.results, erased |-> FALSE]

\* OperationFolder::create(builder, results, location, args).
folderCreate(built, folded, materializes) ==
    createdAndFolded(
        tryToFoldResults(built.f, built.op, folded, materializes), built.op)

\* OperationFolder::create for an operation without results: the operation
\* is returned whatever tryToFold answers.
folderCreateZeroResult(built, folded, materializes) ==
    [f |-> tryToFoldResults(built.f, built.op, folded, materializes).f,
     op |-> built.op, results |-> <<>>, erased |-> FALSE]

(* ------------------------------------------------------------------ *)
(* replaceAllMemRefUsesWith                                            *)
(* ------------------------------------------------------------------ *)

\* The operations that are built before the call.
MaxMemRefOps == 4

\* The memrefs of the call: the arguments of the entry block, of rank 0 and
\* of the same element type.
oldMemRef == BlockArgument(1, 1)
newMemRef == BlockArgument(1, 2)

\* The operations on memrefs of rank 0: their maps have no inputs and they
\* have no index operands.  std.call takes the memref without
\* dereferencing it; std.addf uses a loaded value.
MemRefStates ==
    {[name |-> "affine.load", numResults |-> 1, attributes |-> {"map"},
      numRegions |-> 0],
     [name |-> "affine.store", numResults |-> 0, attributes |-> {"map"},
      numRegions |-> 0],
     [name |-> "std.dealloc", numResults |-> 0, attributes |-> {},
      numRegions |-> 0],
     [name |-> "std.call", numResults |-> 0, attributes |-> {},
      numRegions |-> 0],
     [name |-> "std.addf", numResults |-> 1, attributes |-> {},
      numRegions |-> 0]}

\* isMemRefDereferencingOp.
isMemRefDereferencingOp(name) ==
    name \in {"affine.load", "affine.store", "affine.dma_start",
              "affine.dma_wait"}

\* getMemRefOperandPos of the loop body: the first operand that is the old
\* memref (1-based).
getMemRefOperandPos(ir, opInst, memref) ==
    FirstPos(ir.operations[opInst].operands, memref, 1) + 1

\* builder.createOperation(state) with the builder set before opInst.
insertBefore(st, opInst) ==
    [st EXCEPT
        !.ir.operations[st.op].block = st.ir.operations[opInst].block,
        !.ir.blocks[st.ir.operations[opInst].block].operations =
            listWith(@, FirstPos(@, opInst, 1) + 1, <<st.op>>)]

\* The loop over the results of opInst (lines 242-245).
RECURSIVE replaceResults(_, _, _, _)
replaceResults(ir, opInst, repOp, r) ==
    IF r > ir.operations[opInst].numResults THEN ir
    ELSE replaceResults(
            replaceAllUsesWith(ir, OpResult(opInst, r), OpResult(repOp, r)),
            opInst, repOp, r + 1)

\* The body of the loop for a dereferencing user (lines 118-248): the new
\* operation takes the new memref at the position of the old one, the map
\* of a memref of rank 0 having no operands, and the uses of the results
\* of opInst are given to it.
replaceUser(ir, opInst, memref, withMemRef) ==
    LET o == ir.operations[opInst]
        memRefOperandPos == getMemRefOperandPos(ir, opInst, memref)
        stateOperands ==
            SubSeq(o.operands, 1, memRefOperandPos - 1)
            \o <<withMemRef>>
            \o SubSeq(o.operands, memRefOperandPos + 1, Len(o.operands))
        repOp == insertBefore(
                    create(ir, [name |-> o.name, numResults |-> o.numResults,
                                attributes |-> o.attrs, numRegions |-> 0],
                           stateOperands, <<>>),
                    opInst)
    IN  replaceResults(repOp.ir, opInst, repOp.op, 1)

\* The loop over opsToErase (lines 252-253).
RECURSIVE eraseAll(_, _, _)
eraseAll(ir, opsToErase, i) ==
    IF i > Len(opsToErase) THEN ir
    ELSE eraseAll(erase(ir, opsToErase[i]).ir, opsToErase, i + 1)

\* The loop over the users of the old memref (lines 91-250) from the i-th
\* user on, and the end of the function.
RECURSIVE replaceUsers(_, _, _, _, _, _)
replaceUsers(ir, users, i, memref, withMemRef, opsToErase) ==
    IF i > Len(users)
    THEN [ir |-> eraseAll(ir, opsToErase, 1), result |-> TRUE]
    ELSE IF ir.operations[users[i]].name = "std.dealloc"
    THEN replaceUsers(ir, users, i + 1, memref, withMemRef, opsToErase)
    ELSE IF ~isMemRefDereferencingOp(ir.operations[users[i]].name)
    THEN [ir |-> ir, result |-> FALSE]
    ELSE replaceUsers(replaceUser(ir, users[i], memref, withMemRef), users,
                      i + 1, memref, withMemRef, Append(opsToErase, users[i]))

\* Value::getUsers: the owners of the uses, in the order of the use list.
getUsers(ir, v) == [i \in 1..Len(ir.useList[v]) |-> ir.useList[v][i].owner]

\* mlir::replaceAllMemRefUsesWith without extra indices, index remap and
\* dominance filters.
replaceAllMemRefUsesWith(ir, memref, withMemRef) ==
    replaceUsers(ir, getUsers(ir, memref), 1, memref, withMemRef, <<>>)

(* ------------------------------------------------------------------ *)
(* Operations on the generic IR                                        *)
(* ------------------------------------------------------------------ *)

\* The function body: an entry block with two arguments and a second block.
OpInit ==
    /\ operations = <<>>
    /\ blocks = <<NewBlock(0, 0, 2), NewBlock(0, 0, 0)>>
    /\ useList = [v \in {BlockArgument(1, 1), BlockArgument(1, 2)} |-> <<>>]
    /\ irPc = "run"
    /\ calls = 0
    /\ call = [api |-> "none"]

\* The operand lists and successor lists callers pass to create.
OperandArgs ==
    UNION {[1..n -> IRValues(IR) \cup {NullValue}] : n \in 0..MaxOperandArgs}
SuccessorArgs ==
    UNION {[1..n -> 1..Len(blocks)] : n \in 0..MaxSuccessors}

\* A call of Operation::create that returns.
Create ==
    /\ irPc = "run"
    /\ Len(operations) < MaxCreated
    /\ \E state \in OperationStates : \E operandsArg \in OperandArgs :
       \E successorsArg \in SuccessorArgs :
       \E res \in {create(IR, state, operandsArg, successorsArg)} :
          /\ res.accepted
          /\ operations' = res.ir.operations
          /\ useList' = res.ir.useList
          /\ call' = [api |-> "create", operands |-> operandsArg,
                      successors |-> successorsArg, op |-> res.op]
    /\ UNCHANGED <<blocks, irPc, calls>>
    /\ UNCHANGED outsideOp

\* A call of Operation::create in which an assertion fails.
CreateAbort ==
    /\ irPc = "run"
    /\ Len(operations) < MaxCreated
    /\ \E state \in OperationStates : \E operandsArg \in OperandArgs :
       \E successorsArg \in SuccessorArgs :
          ~create(IR, state, operandsArg, successorsArg).accepted
    /\ irPc' = "abort"
    /\ call' = [api |-> "create"]
    /\ UNCHANGED <<operations, blocks, useList, calls>>
    /\ UNCHANGED outsideOp

\* A call of Operation::replaceUsesOfWith.
ReplaceUsesOfWith ==
    /\ irPc = "run"
    /\ calls < MaxCalls
    /\ \E op \in 1..Len(operations) :
       \E from \in IRValues(IR) : \E to \in IRValues(IR) :
       \E res \in {replaceUsesOfWith(IR, op, from, to)} :
          /\ operations' = res.operations
          /\ useList' = res.useList
          /\ call' = [api |-> "replaceUsesOfWith", op |-> op,
                      from |-> from, to |-> to, before |-> IR]
    /\ calls' = calls + 1
    /\ UNCHANGED <<blocks, irPc>>
    /\ UNCHANGED outsideOp

\* The uses of a Value are replaced, as replaceAllMemRefUsesWith does for
\* the results of the operation it has rebuilt.
ReplaceAllUsesWith ==
    /\ irPc = "run"
    /\ calls < MaxCalls
    /\ \E v \in IRValues(IR) : \E newValue \in IRValues(IR) \ {v} :
       \E res \in {replaceAllUsesWith(IR, v, newValue)} :
          /\ operations' = res.operations
          /\ useList' = res.useList
          /\ call' = [api |-> "replaceAllUsesWith", from |-> v,
                      to |-> newValue, before |-> IR]
    /\ calls' = calls + 1
    /\ UNCHANGED <<blocks, irPc>>
    /\ UNCHANGED outsideOp

\* The mappings callers pass to the clone functions.
Mappings ==
    {EmptyMapping,
     [values |-> (BlockArgument(1, 1) :> BlockArgument(1, 2)),
      blocks |-> (1 :> 2)],
     [values |-> (OpResult(1, 1) :> BlockArgument(1, 1)),
      blocks |-> <<>>]}

\* The operand lists of the operations that are built into blocks.
BuildOperandArgs ==
    UNION {[1..n -> IRValues(IR) \cup {NullValue}] : n \in 0..MaxBuildOperands}

\* The blocks inside regions of operations that are in no block.
NestedBlocks ==
    {b \in 1..Len(blocks) :
        /\ blocks[b].parentOp # 0
        /\ operations[blocks[b].parentOp].block = 0}

builtInto(res, b) == IF b = 0 THEN res ELSE push_back(res, b)

\* An operation is created and, unless b is 0, put at the end of block b.
BuildOp ==
    /\ irPc = "run"
    /\ calls = 0
    /\ Len(operations) < MaxCreated
    /\ \E state \in OperationStates : \E operandsArg \in BuildOperandArgs :
       \E successorsArg \in SuccessorArgs : \E b \in {0} \cup NestedBlocks :
       \E res \in {builtInto(create(IR, state, operandsArg, successorsArg),
                             b)} :
          /\ res.accepted
          /\ operations' = res.ir.operations
          /\ blocks' = res.ir.blocks
          /\ useList' = res.ir.useList
          /\ call' = [api |-> "build", operands |-> operandsArg,
                      successors |-> successorsArg, op |-> res.op]
    /\ UNCHANGED <<irPc, calls>>
    /\ UNCHANGED outsideOp

\* A block with one argument is put into a region of an operation.
AddBlock ==
    /\ irPc = "run"
    /\ calls = 0
    /\ \E op \in 1..Len(operations) :
       \E r \in 1..Len(operations[op].regions) :
          /\ Len(operations[op].regions[r]) < MaxBlocksPerRegion
          /\ \E res \in {addBlock(IR, op, r, 1)} :
                /\ operations' = res.operations
                /\ blocks' = res.blocks
                /\ useList' = res.useList
          /\ call' = [api |-> "addBlock", op |-> op]
    /\ UNCHANGED <<irPc, calls>>
    /\ UNCHANGED outsideOp

\* A call of Operation::cloneWithoutRegions(mapper).
CloneWithoutRegions ==
    /\ irPc = "run"
    /\ calls < MaxCalls
    /\ \E op \in 1..Len(operations) : \E mapper \in Mappings :
       \E res \in {cloneWithoutRegions(IR, op, mapper)} :
          /\ operations' = res.ir.operations
          /\ blocks' = res.ir.blocks
          /\ useList' = res.ir.useList
          /\ irPc' = IF res.accepted THEN "run" ELSE "abort"
          /\ call' = [api |-> "cloneWithoutRegions", orig |-> op,
                      op |-> res.op, mapperBefore |-> mapper,
                      mapper |-> res.mapper, before |-> IR]
    /\ calls' = calls + 1
    /\ UNCHANGED outsideOp

\* What a call of clone leaves for the call that repeats it.
firstClone ==
    IF call.api = "clone"
    THEN [api |-> "clone", orig |-> call.orig, op |-> call.op,
          mapperBefore |-> call.mapperBefore, before |-> call.before]
    ELSE [api |-> "none"]

\* A call of Operation::clone(mapper).  The second call of a run clones
\* the same operation again, with a mapping without entries.
Clone ==
    /\ irPc = "run"
    /\ calls < MaxClones
    /\ \E op \in 1..Len(operations) : \E mapper \in Mappings :
          /\ \/ calls = 0
             \/ /\ call.api = "clone"
                /\ op = call.orig
                /\ mapper = EmptyMapping
          /\ \E res \in {clone(IR, op, mapper)} :
                /\ operations' = res.ir.operations
                /\ blocks' = res.ir.blocks
                /\ useList' = res.ir.useList
                /\ irPc' = IF res.accepted THEN "run" ELSE "abort"
                /\ call' = [api |-> "clone", orig |-> op, op |-> res.op,
                            mapperBefore |-> mapper, mapper |-> res.mapper,
                            before |-> IR, first |-> firstClone]
    /\ calls' = calls + 1
    /\ UNCHANGED outsideOp

\* An operation is created and put at the end of a block of the IR.
BuildIntoBlock ==
    /\ irPc = "run"
    /\ calls = 0
    /\ Len(operations) < MaxCreated
    /\ \E state \in OperationStates : \E operandsArg \in BuildOperandArgs :
       \E successorsArg \in SuccessorArgs : \E b \in 1..Len(blocks) :
       \E res \in {push_back(create(IR, state, operandsArg, successorsArg),
                             b)} :
          /\ res.accepted
          /\ operations' = res.ir.operations
          /\ blocks' = res.ir.blocks
          /\ useList' = res.ir.useList
          /\ call' = [api |-> "build", operands |-> operandsArg,
                      successors |-> successorsArg, op |-> res.op]
    /\ UNCHANGED <<irPc, calls>>
    /\ UNCHANGED outsideOp

\* The Values whose types verifyIsTerminator reads for op.
typedBy(op) ==
    Range(operations[op].operands)
    \cup UNION {{BlockArgument(operations[op].successors[k], i) :
                    i \in 1..blocks[operations[op].successors[k]].numArguments}
                : k \in 1..Len(operations[op].successors)}

\* The verifier calls verifyIsTerminator on an operation that may be a
\* terminator, whatever the types of the Values.
VerifyIsTerminator ==
    /\ irPc = "run"
    /\ calls < MaxCalls
    /\ \E op \in 1..Len(operations) : \E types \in [typedBy(op) -> Types] :
          /\ ~isKnownNonTerminator(operations[op].name)
          /\ call' = [api |-> "verifyIsTerminator", op |-> op,
                      types |-> types,
                      result |-> verifyIsTerminator(IR, types, op)]
    /\ calls' = calls + 1
    /\ UNCHANGED <<operations, blocks, useList, irPc>>
    /\ UNCHANGED outsideOp

\* A call of Operation::erase.
Erase ==
    /\ irPc = "run"
    /\ calls < MaxCalls
    /\ \E op \in 1..Len(operations) : \E res \in {erase(IR, op)} :
          /\ operations' = res.ir.operations
          /\ blocks' = res.ir.blocks
          /\ useList' = res.ir.useList
          /\ irPc' = IF res.assertHeld THEN "run" ELSE "abort"
          /\ call' = [api |-> "erase", op |-> op, before |-> IR,
                      destroyed |-> res.destroyed,
                      assertHeld |-> res.assertHeld]
    /\ calls' = calls + 1
    /\ UNCHANGED outsideOp

\* A call of Operation::destroy on an operation, in a block or not.  When
\* the assertion of the destructor fails the run stops.
Destroy ==
    /\ irPc = "run"
    /\ calls < MaxCalls
    /\ \E op \in 1..Len(operations) : \E res \in {destroy(IR, op)} :
          /\ operations' = IF res.assertHeld THEN res.ir.operations
                           ELSE operations
          /\ useList' = IF res.assertHeld THEN res.ir.useList ELSE useList
          /\ irPc' = IF res.assertHeld THEN "run" ELSE "abort"
          /\ call' = [api |-> "destroy", op |-> op, before |-> IR,
                      destroyed |-> IF res.assertHeld THEN res.destroyed
                                    ELSE {},
                      assertHeld |-> res.assertHeld]
    /\ calls' = calls + 1
    /\ UNCHANGED blocks
    /\ UNCHANGED outsideOp

\* A call of impl::ensureRegionTerminator on a region of an operation.  The
\* second call of a run is on the same region.
EnsureRegionTerminator ==
    /\ irPc = "run"
    /\ calls < MaxCalls + 1
    /\ calls > 0 => call.api = "ensureRegionTerminator"
    /\ \E op \in 1..Len(operations) :
       \E r \in 1..Len(operations[op].regions) :
       \E state \in TerminatorStates :
       \E res \in {ensureRegionTerminator(IR, op, r, state)} :
          /\ calls > 0 => (op = call.op /\ r = call.r)
          /\ operations' = res.ir.operations
          /\ blocks' = res.ir.blocks
          /\ useList' = res.ir.useList
          /\ call' = [api |-> "ensureRegionTerminator", op |-> op, r |-> r,
                      before |-> IR, builds |-> res.builds,
                      second |-> (calls > 0)]
    /\ calls' = calls + 1
    /\ UNCHANGED irPc
    /\ UNCHANGED outsideOp

FolderInit ==
    /\ foldScopes = {}
    /\ referencedDialects = {}
    /\ info = <<>>
    /\ freed = {}
    /\ notified = {}
    /\ folderCall = [api |-> "none"]

\* The operations that are in a block and were not destroyed.
liveOps == {op \in 1..Len(operations) : op \notin freed /\ operations[op].block # 0}

\* The operations that were made by calls of OperationFolder::create for a
\* state.
createdOps(state) ==
    {op \in 1..Len(operations) : operations[op].name = state.name}

\* The operations like state that can still be made.
creatable(state) ==
    IF state.numRegions = 0
    THEN Cardinality(UNION {createdOps(st) :
                               st \in {x \in FolderStates :
                                          x.numRegions = 0}})
            < MaxFolderCreates
    ELSE Cardinality(createdOps(state)) < MaxLoops

\* The operand list of the operations with a result that are made through
\* the folder: an argument of the function.
FolderOperandArgs == {<<BlockArgument(1, 1)>>}

\* The blocks the builder inserts into: the entry block of the function
\* and the blocks of the live loops.
InsertionBlocks ==
    {1} \cup {b \in 1..Len(blocks) :
                /\ blocks[b].parentOp # 0
                /\ blocks[b].parentOp \notin freed}

\* What Operation::fold can answer for an operation: failure, success with
\* one constant or one operand per result.
FoldAnswers(numResults, opOperands) ==
    {[succeeded |-> FALSE, results |-> <<>>]}
    \cup (IF numResults = 0 THEN {[succeeded |-> TRUE, results |-> <<>>]}
          ELSE {[succeeded |-> TRUE,
                 results |-> <<OpFoldResult("attribute", NullValue, c)>>] :
                    c \in ConstantAttrs}
               \cup {[succeeded |-> TRUE,
                      results |-> <<OpFoldResult("value", opOperands[i],
                                                 NoAttribute)>>] :
                        i \in 1..Len(opOperands)})

\* The constant operation the folder has, before a call, under the key of
\* the constant that Operation::fold answers for op; 0 when it has none.
existingFor(f, op, folded) ==
    IF folded.succeeded /\ folded.results # <<>>
       /\ folded.results[1].kind = "attribute"
    THEN lookupConstant(f.foldScopes, getInsertionRegion(f.ir, op),
                        dialectOf(f.ir.operations[op].name),
                        folded.results[1].attribute, f.info[op].type)
    ELSE 0

\* The variables take the IR and the tables of f.
folderBecomes(f) ==
    /\ operations' = f.ir.operations
    /\ blocks' = f.ir.blocks
    /\ useList' = f.ir.useList
    /\ foldScopes' = f.foldScopes
    /\ referencedDialects' = f.referencedDialects
    /\ info' = f.info
    /\ freed' = f.freed

\* A call of OperationFolder::create; an operation without results is made
\* through either overload.
FolderCreate ==
    /\ \E state \in {x \in FolderStates : creatable(x)} :
       \E type \in IF state.name = "toy.mul" THEN Types ELSE {"index"} :
       \E operandsArg \in IF state.numResults = 0 THEN {<<>>}
                          ELSE FolderOperandArgs :
       \E b \in InsertionBlocks :
       \E folded \in FoldAnswers(state.numResults, operandsArg) :
       \E materializes \in BOOLEAN :
       \E zeroResult \in {FALSE, state.numResults = 0} :
       \E built \in {builderCreate(FolderState, state, type, operandsArg,
                                   b)} :
       \E res \in {IF zeroResult
                   THEN folderCreateZeroResult(built, folded, materializes)
                   ELSE folderCreate(built, folded, materializes)} :
          /\ folderBecomes(res.f)
          /\ folderCall' =
                [api |-> "create", op |-> res.op,
                 foldSucceeded |->
                    tryToFoldResults(built.f, built.op, folded,
                                     materializes).succeeded,
                 results |-> res.results, zeroResult |-> zeroResult,
                 region |-> getInsertionRegion(built.f.ir, built.op),
                 existing |-> existingFor(built.f, built.op, folded),
                 made |-> Len(res.f.ir.operations) - Len(operations)]
    /\ UNCHANGED <<irPc, calls, call, notified>>
    /\ UNCHANGED outsideFolder

\* A call of OperationFolder::tryToFold on an operation of the IR.
TryToFold ==
    /\ \E op \in liveOps :
       \E folded \in FoldAnswers(operations[op].numResults,
                                 operations[op].operands) :
       \E materializes \in BOOLEAN :
       \E res \in {tryToFold(FolderState, op, folded, materializes)} :
          /\ folderBecomes(res.f)
          /\ folderCall' =
                [api |-> "tryToFold", op |-> op,
                 foldSucceeded |-> res.succeeded,
                 region |-> getInsertionRegion(IR, op),
                 existing |-> existingFor(FolderState, op, folded),
                 made |-> Len(res.f.ir.operations) - Len(operations)]
    /\ UNCHANGED <<irPc, calls, call, notified>>
    /\ UNCHANGED outsideFolder

\* A call of OperationFolder::notifyRemoval on a constant operation.
NotifyRemoval ==
    /\ \E op \in {x \in liveOps : operations[x].name = ConstantState.name} :
          /\ op \in notified \/ Cardinality(notified) < MaxNotified
          /\ folderBecomes(notifyRemoval(FolderState, op))
          /\ notified' = notified \cup {op}
          /\ folderCall' = [api |-> "notifyRemoval", op |-> op]
    /\ UNCHANGED <<irPc, calls, call>>
    /\ UNCHANGED outsideFolder

\* An operation without uses is erased outside the folder.  The caller has
\* called notifyRemoval on the constants that go: none of the operations
\* destroyed is referenced by a dialect.
ExternalErase ==
    /\ \E op \in liveOps :
          /\ \A x \in opsWithin(IR, op) :
                /\ dialectsOf(referencedDialects, x) = {}
                /\ \A i \in 1..operations[x].numResults :
                      \A u \in Range(useList[OpResult(x, i)]) :
                         u.owner \in opsWithin(IR, op)
          /\ folderBecomes(eraseIn(FolderState, op))
          /\ folderCall' = [api |-> "erase", op |-> op]
    /\ UNCHANGED <<irPc, calls, call, notified>>
    /\ UNCHANGED outsideFolder

\* The operand lists of the users of the old memref and of loaded values:
\* a load, a dealloc or a call on the memref, a store of a loaded value
\* into the memref, an addf of a loaded value.
MemRefOperandArgs(state) ==
    LET loaded == {OpResult(op, 1) :
                     op \in {x \in 1..Len(operations) :
                                operations[x].name = "affine.load"}}
    IN  IF state.name = "affine.store"
        THEN {<<v, oldMemRef>> : v \in loaded}
        ELSE IF state.name = "std.addf"
        THEN {<<v, v>> : v \in loaded}
        ELSE {<<oldMemRef>>}

\* An operation on the old memref, or on a value loaded from it, is built at
\* the end of the entry block.
BuildMemRefUser ==
    /\ irPc = "run"
    /\ calls = 0
    /\ Len(operations) < MaxMemRefOps
    /\ \E state \in MemRefStates : \E operandsArg \in MemRefOperandArgs(state) :
       \E res \in {push_back(create(IR, state, operandsArg, <<>>), 1)} :
          /\ operations' = res.ir.operations
          /\ blocks' = res.ir.blocks
          /\ useList' = res.ir.useList
          /\ call' = [api |-> "build", op |-> res.op]
    /\ UNCHANGED <<irPc, calls>>
    /\ UNCHANGED outsideOp

\* A call of replaceAllMemRefUsesWith(oldMemRef, newMemRef).
ReplaceAllMemRefUsesWith ==
    /\ irPc = "run"
    /\ calls = 0
    /\ \E res \in {replaceAllMemRefUsesWith(IR, oldMemRef, newMemRef)} :
          /\ operations' = res.ir.operations
          /\ blocks' = res.ir.blocks
          /\ useList' = res.ir.useList
          /\ call' = [api |-> "replaceAllMemRefUsesWith", before |-> IR,
                      result |-> res.result]
    /\ calls' = calls + 1
    /\ UNCHANGED irPc
    /\ UNCHANGED outsideOp

vars ==
    <<affineVars, opVars, normVars, foldVars, folderVars, valueVars,
      orderVars, traitVars>>

\* Single compose passes over the IR.
Init ==
    /\ AffineInit /\ OpInit /\ NormInit /\ FoldInit /\ FolderInit
    /\ ValueInit /\ OrderInit /\ TraitInit
Next == CreateApply \/ Compose \/ ComposeFault
Spec == Init /\ [][Next]_vars

\* The fixed-point driver.  The loop is synchronous code: an iteration that
\* can run does run, and so does the return.  The FullyIteration steps of
\* FullyNext are the FullyPass steps, and FullyPass can step wherever
\* FullyIteration can.
FullyNext == CreateApply \/ FullyEnter \/ FullyPass \/ FullyFault \/ FullyExit
SpecFully ==
    /\ Init
    /\ [][FullyNext]_vars
    /\ WF_passes(FullyIteration)
    /\ WF_vars(FullyExit)

\* Operations are created and their operands rewritten.
OpNext ==
    \/ Create \/ CreateAbort \/ ReplaceUsesOfWith \/ ReplaceAllUsesWith
SpecOp == Init /\ [][OpNext]_vars

\* Operations with regions are built and cloned.
CloneNext == BuildOp \/ AddBlock \/ CloneWithoutRegions \/ Clone
SpecClone == Init /\ [][CloneNext]_vars

\* Direct calls of the canonicalization.
CanonNext == CreateApply \/ Canonicalize
SpecCanon == Init /\ [][CanonNext]_vars

\* The entry points of the composition, one constructor step at a time.
NormalizerNext ==
    \/ CreateApply \/ CallEnter \/ ConstructNormalizer \/ Dispatch
    \/ NestedConstruct \/ ConstructorReturn \/ NestedDestroy
    \/ ComposeReturn \/ ComposeAbort \/ FullyReturn
SpecNormalizer == Init /\ [][NormalizerNext]_vars

\* Folds of single operations.
FoldNext == FoldApply \/ FoldOperation
SpecFold == Init /\ [][FoldNext]_vars

\* Operations are built into blocks, then verified, erased or given a
\* terminator.
BlockNext ==
    \/ BuildIntoBlock \/ BuildOp \/ AddBlock \/ VerifyIsTerminator
    \/ Erase \/ Destroy \/ EnsureRegionTerminator
SpecBlock == Init /\ [][BlockNext]_vars

\* Users of a memref are built and the memref is replaced.
MemRefNext == BuildMemRefUser \/ ReplaceAllMemRefUsesWith
SpecMemRef == Init /\ [][MemRefNext]_vars

\* Operations are made through an OperationFolder, folded and erased.
FolderNext == FolderCreate \/ TryToFold \/ NotifyRemoval \/ ExternalErase
SpecFolder == Init /\ [][FolderNext]_vars

\* Trait checks are called on operations.
TraitNext == VerifyTrait
SpecTraits == Init /\ [][TraitNext]_vars

\* Operations are inserted into blocks, removed, moved and transferred, and
\* their order is asked.
OrderNext ==
    InsertOp \/ RemoveOp \/ MoveBefore \/ TransferOps \/ IsBeforeInBlock
SpecOrder == Init /\ [][OrderNext]_vars

\* The Values of a function are defined and classified.
ValueNext == DefineValue
SpecValues == Init /\ [][ValueNext]_vars

\* Operations are created and cloned without their regions.
PartitionNext == Create \/ CreateAbort \/ CloneWithoutRegions
SpecPartition == Init /\ [][PartitionNext]_vars

(* ------------------------------------------------------------------ *)
(* Composition correctness                                             *)
(* ------------------------------------------------------------------ *)

\* C1: whenever composeAffineMapAndOperands returns, the map it leaves,
\* evaluated on the operands it leaves, gives for every assignment of
\* integers to the leaf Values the result of the map it was called with on
\* the operands it was called with, each affine.apply operand being
\* evaluated from its own map and operands.  Stated for the calls all of
\* whose intermediate maps refer to positions they have (the behaviour of
\* the others is undefined).
C1_CompositionCorrect ==
    (/\ pc = "done" /\ api = "compose"
     /\ composeAffineMapAndOperands(inMap, inOperands).defined)
        => SameFunction(map, operands, inMap, inOperands)

\* A call with an affine.apply operand returned the function it was given.
C1_ComposedChain ==
    /\ pc = "done" /\ api = "compose"
    /\ hasAffineApplyOperand(inOperands)
    /\ SameFunction(map, operands, inMap, inOperands)

(* ------------------------------------------------------------------ *)
(* Termination of the fixed-point driver                               *)
(* ------------------------------------------------------------------ *)

\* C2: fullyComposeAffineMapAndOperands terminates: a call that is inside
\* its loop eventually leaves it, and when the call returns no operand of
\* the list is the result of an affine.apply.
C2_FullyComposeTerminates ==
    /\ (pc = "loop") ~> (pc \in {"done", "fault"})
    /\ [](pc = "done" /\ api = "fullyCompose"
            => ~hasAffineApplyOperand(operands))

\* An operand of v is the result of an affine.apply.
definedFromApply(v) ==
    /\ isAffineApplyResult(v)
    /\ hasAffineApplyOperand(applyOps[ApplyIndex(v)].operands)

\* A call on a chain of two affine.apply operations has returned.
C2_ChainOfTwoResolved ==
    /\ pc = "done" /\ api = "fullyCompose"
    /\ \E i \in 1..Len(inOperands) : definedFromApply(inOperands[i])
    /\ ~hasAffineApplyOperand(operands)

(* ------------------------------------------------------------------ *)
(* Idempotence on the canonical form                                   *)
(* ------------------------------------------------------------------ *)

Distinct(s) == \A i, j \in 1..Len(s) : i # j => s[i] # s[j]

\* The canonical form: no operand is the result of an affine.apply, every
\* dim and symbol position is used, no operand Value is repeated.
Canonical(m, ops) ==
    /\ ~hasAffineApplyOperand(ops)
    /\ MapUsedDims(m) = 0..(m.numDims - 1)
    /\ MapUsedSyms(m) = 0..(m.numSymbols - 1)
    /\ Distinct(ops)

\* C7 as stated: composeAffineMapAndOperands called on a map and operands
\* in canonical form returns the same map and the same operands.
C7_Idempotent ==
    (pc = "done" /\ api = "compose" /\ Canonical(inMap, inOperands))
        => (map = inMap /\ operands = inOperands)

NoDimIsValidSymbol(m, ops) ==
    \A i \in 1..m.numDims : ~isValidSymbol(ops[i])

\* C7 amended: composeAffineMapAndOperands called on a map and operands in
\* canonical form, the map being one that simplifyAffineMap leaves as it is
\* and no dim operand being a valid symbol, returns the same map and the
\* same operands.
C7_IdempotentOnProperDims ==
    (/\ pc = "done" /\ api = "compose"
     /\ Canonical(inMap, inOperands)
     /\ simplifyAffineMap(inMap) = inMap
     /\ NoDimIsValidSymbol(inMap, inOperands))
        => (map = inMap /\ operands = inOperands)

\* A call on a canonical map with a dim that is no valid symbol and a
\* symbol has returned its input.
C7_CanonicalDimAndSymbol ==
    /\ pc = "done" /\ api = "compose"
    /\ Canonical(inMap, inOperands)
    /\ simplifyAffineMap(inMap) = inMap
    /\ NoDimIsValidSymbol(inMap, inOperands)
    /\ inMap.numDims > 0 /\ inMap.numSymbols > 0
    /\ map = inMap /\ operands = inOperands

(* ------------------------------------------------------------------ *)
(* Aliasing                                                            *)
(* ------------------------------------------------------------------ *)

\* () -> (0)
MapZero == AffineMapGet(0, 0, <<getAffineConstantExpr(0)>>)

C10_ArityInvariant ==
    /\ assertsOk
    /\ arityOk
    /\ pc \in {"loop", "done"} => Arity(map, operands)

\* A fixed-point call that inlined an affine.apply and returned dims and
\* symbols.
C10_ComposedDimsAndSymbols ==
    /\ pc = "done" /\ api = "fullyCompose"
    /\ hasAffineApplyOperand(inOperands)
    /\ map.numDims > 0 /\ map.numSymbols > 0
    /\ Arity(map, operands)

(* ------------------------------------------------------------------ *)
(* Canonical form                                                      *)
(* ------------------------------------------------------------------ *)

\* The operand a term of a result of m refers to.
termOperand(m, ops, t) ==
    IF t.kind = "d" THEN ops[t.pos + 1] ELSE ops[m.numDims + t.pos + 1]

\* The Values at the used dim positions and at the used symbol positions.
usedDimOperands(m, ops) == {ops[q + 1] : q \in MapUsedDims(m)}
usedSymOperands(m, ops) == {ops[m.numDims + q + 1] : q \in MapUsedSyms(m)}

dimOperands(m, ops) == SubSeq(ops, 1, m.numDims)
symOperands(m, ops) == SubSeq(ops, m.numDims + 1, Len(ops))

\* Every position of the map is referenced, no Value occurs twice among
\* the dim operands nor twice among the symbol operands, and every
\* reference of the map called with goes to the operand it went to.
canonicalPositions(m1, ops1, m2, ops2) ==
    /\ MapWellFormed(m1)
    /\ Arity(m1, ops1)
    /\ MapUsedDims(m1) = 0..(m1.numDims - 1)
    /\ MapUsedSyms(m1) = 0..(m1.numSymbols - 1)
    /\ Distinct(dimOperands(m1, ops1))
    /\ Distinct(symOperands(m1, ops1))
    /\ Len(m1.results) = Len(m2.results)
    /\ \A r \in 1..Len(m2.results) :
          /\ Len(m1.results[r].terms) = Len(m2.results[r].terms)
          /\ m1.results[r].const = m2.results[r].const
          /\ \A i \in 1..Len(m2.results[r].terms) :
                /\ m1.results[r].terms[i].coef = m2.results[r].terms[i].coef
                /\ termOperand(m1, ops1, m1.results[r].terms[i])
                     = termOperand(m2, ops2, m2.results[r].terms[i])

\* C9 as stated: after canonicalizeMapAndOperands on a non-empty operand
\* list every dim and symbol position of the map is referenced, no Value
\* occurs twice among the dim operands nor among the symbol operands, the
\* references go to the operands they went to, and numDims and numSymbols
\* are the numbers of distinct used dim operands and of distinct used symbol
\* operands of the call.
C9_CanonicalForm ==
    (pc = "done" /\ api = "canonicalize")
        => /\ assertsOk
           /\ canonicalPositions(map, operands, inMap, inOperands)
           /\ map.numDims
                = Cardinality(usedDimOperands(inMap, inOperands))
           /\ map.numSymbols
                = Cardinality(usedSymOperands(inMap, inOperands))

\* C9 amended: as C9, a used dim operand that is a valid symbol counting
\* as a symbol operand: numDims is the number of distinct used dim operands
\* that are no valid symbols, numSymbols the number of distinct Values
\* among the used symbol operands and the used dim operands that are valid
\* symbols.
C9_CanonicalFormPromoted ==
    (pc = "done" /\ api = "canonicalize")
        => /\ assertsOk
           /\ canonicalPositions(map, operands, inMap, inOperands)
           /\ map.numDims
                = Cardinality({v \in usedDimOperands(inMap, inOperands) :
                                  ~isValidSymbol(v)})
           /\ map.numSymbols
                = Cardinality(usedSymOperands(inMap, inOperands)
                     \cup {v \in usedDimOperands(inMap, inOperands) :
                              isValidSymbol(v)})

\* A call with an unused dim, an unused symbol, a used dim that is a valid
\* symbol and a used symbol, from which one symbol operand is left.
C9_DroppedAndPromoted ==
    /\ pc = "done" /\ api = "canonicalize"
    /\ inMap = MapUnusedInputs
    /\ isValidSymbol(inOperands[2])
    /\ inOperands[2] = inOperands[4]
    /\ Len(operands) = 1


(* ------------------------------------------------------------------ *)
(* C3: Operation::create, operand count and uses                       *)
(* ------------------------------------------------------------------ *)

occurrences(s, v) == Cardinality({i \in DOMAIN s : s[i] = v})

usesOwnedBy(uses, v, op) == SelectSeq(uses[v], LAMBDA u : u.owner = op)

\* Each operand slot of op has its use exactly once in the use list of the
\* Value it refers to, and a Value passed k times to create has exactly k
\* uses owned by op.
OperandUsesInstalled(op) ==
    /\ \A i \in 1..Len(operations[op].operands) :
          occurrences(useList[operations[op].operands[i]],
                      OpOperand(op, i)) = 1
    /\ \A v \in IRValues(IR) :
          Len(usesOwnedBy(useList, v, op)) = occurrences(call.operands, v)

\* C3 as the specification states it: after every call accepted by
\* Operation::create, getNumOperands() equals the size of the operands
\* argument and every operand slot's use is exactly once in the use list of
\* its Value.
C3_NumOperandsIsArgumentSize ==
    (call.api = "create" /\ irPc = "run") =>
        /\ getNumOperands(operations[call.op]) = Len(call.operands)
        /\ OperandUsesInstalled(call.op)

\* C3, amended: after every call accepted by Operation::create,
\* getNumOperands() equals the size of the operands argument minus the number
\* of successors, that is the number of entries that are not null sentinels
\* (the size of the argument when there are no successors); it is the
\* number of operand slots, and every operand slot's use is exactly once in
\* the use list of its Value, a Value passed k times having exactly k uses
\* owned by the operation.
C3_NumOperandsWithoutSentinels ==
    (call.api = "create" /\ irPc = "run") =>
        /\ getNumOperands(operations[call.op])
              = Len(call.operands) - Len(call.successors)
        /\ getNumOperands(operations[call.op])
              = Len(call.operands) - occurrences(call.operands, NullValue)
        /\ call.successors = <<>> =>
              getNumOperands(operations[call.op]) = Len(call.operands)
        /\ Len(operations[call.op].operands)
              = getNumOperands(operations[call.op])
        /\ OperandUsesInstalled(call.op)

\* An operation with a successor was created whose operand list names one
\* Value twice.
C3_SuccessorAndValueTwice ==
    /\ call.api = "create"
    /\ irPc = "run"
    /\ Len(call.successors) = 1
    /\ \E v \in IRValues(IR) : occurrences(call.operands, v) = 2

(* ------------------------------------------------------------------ *)
(* C4: use lists under operand mutation                                *)
(* ------------------------------------------------------------------ *)

\* Every use in a use list is an operand slot that holds the Value of the
\* list, no use is twice in a list, and every operand slot is in the list of
\* the Value it holds.
UseListConsistent(ir) ==
    /\ \A v \in DOMAIN ir.useList : \A k \in 1..Len(ir.useList[v]) :
          /\ ir.useList[v][k].owner \in 1..Len(ir.operations)
          /\ ir.useList[v][k].slot
                \in 1..Len(ir.operations[ir.useList[v][k].owner].operands)
          /\ ir.operations[ir.useList[v][k].owner]
                .operands[ir.useList[v][k].slot] = v
          /\ occurrences(ir.useList[v], ir.useList[v][k]) = 1
    /\ \A op \in 1..Len(ir.operations) :
       \A i \in 1..Len(ir.operations[op].operands) :
          /\ ir.operations[op].operands[i] \in DOMAIN ir.useList
          /\ OpOperand(op, i)
                \in Range(ir.useList[ir.operations[op].operands[i]])

\* The operand slots after the uses of from, in the operations ops, were
\* set to to.
OperandsReplaced(before, ops, from, to) ==
    /\ Len(operations) = Len(before.operations)
    /\ \A op \in 1..Len(operations) :
          /\ Len(operations[op].operands)
                = Len(before.operations[op].operands)
          /\ \A i \in 1..Len(operations[op].operands) :
                operations[op].operands[i] =
                    IF op \in ops /\ before.operations[op].operands[i] = from
                    THEN to
                    ELSE before.operations[op].operands[i]

\* The use lists after the uses of from owned by the operations ops were
\* moved to to (from and to differ).
UsesMoved(before, ops, from, to) ==
    \A v \in DOMAIN useList :
        /\ Range(useList[v]) =
             IF v = from
             THEN {u \in Range(before.useList[from]) : u.owner \notin ops}
             ELSE IF v = to
             THEN Range(before.useList[to])
                  \cup {u \in Range(before.useList[from]) : u.owner \in ops}
             ELSE Range(before.useList[v])
        /\ Len(useList[v]) = Cardinality(Range(useList[v]))

C6_CloneWithoutRegions ==
    call.api = "cloneWithoutRegions" =>
        /\ irPc = "run"
        /\ call.op \notin 1..Len(call.before.operations)
        /\ operations[call.orig] = call.before.operations[call.orig]
        /\ operations[call.op].name = operations[call.orig].name
        /\ operations[call.op].attrs = operations[call.orig].attrs
        /\ operations[call.op].numResults = operations[call.orig].numResults
        /\ getNumOperands(operations[call.op])
              = getNumOperands(operations[call.orig])
        /\ operations[call.op].operands =
              [i \in 1..Len(operations[call.orig].operands) |->
                  lookupOrDefault(call.mapperBefore.values,
                                  operations[call.orig].operands[i])]
        /\ operations[call.op].successors =
              [i \in 1..Len(operations[call.orig].successors) |->
                  lookupOrDefault(call.mapperBefore.blocks,
                                  operations[call.orig].successors[i])]
        /\ operations[call.op].succOperandCount
              = operations[call.orig].succOperandCount
        /\ \A s \in 1..Len(operations[call.orig].successors) :
              getSuccessorOperands(operations[call.op], s - 1) =
                  lookupValues(call.mapperBefore,
                      getSuccessorOperands(operations[call.orig], s - 1))
        /\ Len(operations[call.op].regions)
              = Len(operations[call.orig].regions)
        /\ \A r \in 1..Len(operations[call.op].regions) :
              operations[call.op].regions[r] = <<>>
        /\ blocks = call.before.blocks
        /\ \A i \in 1..operations[call.orig].numResults :
              /\ OpResult(call.orig, i) \in DOMAIN call.mapper.values
              /\ call.mapper.values[OpResult(call.orig, i)]
                    = OpResult(call.op, i)

\* An operation with a successor operand that the mapper replaces was
\* cloned without its regions.
C6_RemappedSuccessorOperand ==
    /\ call.api = "cloneWithoutRegions"
    /\ Len(operations[call.orig].successors) >= 1
    /\ \E v \in Range(getSuccessorOperands(operations[call.orig], 0)) :
          /\ v \in DOMAIN call.mapperBefore.values
          /\ call.mapperBefore.values[v] # v
    /\ operations[call.orig].successors[1]
          \in DOMAIN call.mapperBefore.blocks

(* ------------------------------------------------------------------ *)
(* C5: Operation::clone                                                *)
(* ------------------------------------------------------------------ *)

blocksOf(ir, ops) ==
    {b \in 1..Len(ir.blocks) : ir.blocks[b].parentOp \in ops}

\* The Values defined by the operations ops and the blocks bs.
definedBy(ir, ops, bs) ==
    {OpResult(o, i) : o \in ops, i \in 1..SetMax({0} \cup
        {ir.operations[p].numResults : p \in ops})}
    \cup {BlockArgument(b, i) : b \in bs, i \in 1..SetMax({0} \cup
        {ir.blocks[c].numArguments : c \in bs})}

\* The Values and blocks that the operations ops refer to.
valuesUsedBy(ir, ops) ==
    UNION {Range(ir.operations[o].operands) : o \in ops}
successorsOf(ir, ops) ==
    UNION {Range(ir.operations[o].successors) : o \in ops}

\* The operation n after the call is the copy of the operation o before it:
\* same name, attributes, operand count and results, operands and
\* successors looked up in the mapping mp, and regions, blocks and
\* operations that correspond one to one, each new and each remembered in mp.
RECURSIVE IsomorphicOps(_, _, _, _, _)
IsomorphicBlocks(before, after, mp, b, nb, parent, r) ==
    /\ nb \notin 1..Len(before.blocks)
    /\ b \in DOMAIN mp.blocks
    /\ mp.blocks[b] = nb
    /\ after.blocks[nb].parentOp = parent
    /\ after.blocks[nb].region = r
    /\ after.blocks[nb].numArguments = before.blocks[b].numArguments
    /\ \A i \in 1..before.blocks[b].numArguments :
          /\ BlockArgument(b, i) \in DOMAIN mp.values
          /\ mp.values[BlockArgument(b, i)] = BlockArgument(nb, i)
    /\ Len(after.blocks[nb].operations) = Len(before.blocks[b].operations)
    /\ \A k \in 1..Len(before.blocks[b].operations) :
          /\ after.operations[after.blocks[nb].operations[k]].block = nb
          /\ IsomorphicOps(before, after, mp, before.blocks[b].operations[k],
                           after.blocks[nb].operations[k])
IsomorphicOps(before, after, mp, o, n) ==
    /\ n \notin 1..Len(before.operations)
    /\ after.operations[n].name = before.operations[o].name
    /\ after.operations[n].attrs = before.operations[o].attrs
    /\ after.operations[n].numResults = before.operations[o].numResults
    /\ getNumOperands(after.operations[n])
          = getNumOperands(before.operations[o])
    /\ after.operations[n].succOperandCount
          = before.operations[o].succOperandCount
    /\ \A i \in 1..before.operations[o].numResults :
          /\ OpResult(o, i) \in DOMAIN mp.values
          /\ mp.values[OpResult(o, i)] = OpResult(n, i)
    /\ after.operations[n].operands
          = lookupValues(mp, before.operations[o].operands)
    /\ after.operations[n].successors =
          [i \in 1..Len(before.operations[o].successors) |->
              lookupOrDefault(mp.blocks, before.operations[o].successors[i])]
    /\ Len(after.operations[n].regions) = Len(before.operations[o].regions)
    /\ \A r \in 1..Len(before.operations[o].regions) :
          /\ Len(after.operations[n].regions[r])
                = Len(before.operations[o].regions[r])
          /\ \A k \in 1..Len(before.operations[o].regions[r]) :
                IsomorphicBlocks(before, after, mp,
                    before.operations[o].regions[r][k],
                    after.operations[n].regions[r][k], n, r)

\* What the mapping holds after the call for Values and blocks defined
\* outside the original is what the caller had put into it.
OutsideKept(before, mapperBefore, mp, inside) ==
    /\ \A v \in DOMAIN mp.values \ definedBy(before, inside,
                                             blocksOf(before, inside)) :
          /\ v \in DOMAIN mapperBefore.values
          /\ mp.values[v] = mapperBefore.values[v]
    /\ \A b \in DOMAIN mp.blocks \ blocksOf(before, inside) :
          /\ b \in DOMAIN mapperBefore.blocks
          /\ mp.blocks[b] = mapperBefore.blocks[b]

\* The call has left what there was before as it was.
OriginalKept(before) ==
    /\ SubSeq(operations, 1, Len(before.operations)) = before.operations
    /\ SubSeq(blocks, 1, Len(before.blocks)) = before.blocks
    /\ \A v \in DOMAIN before.useList :
          {u \in Range(useList[v]) : u.owner \in 1..Len(before.operations)}
              = Range(before.useList[v])

\* The operations ops with the blocks bs refer to nothing that the
\* operations others with the blocks otherBlocks define.
RefersToNone(ir, ops, bs, others, otherBlocks) ==
    /\ ops \cap others = {}
    /\ bs \cap otherBlocks = {}
    /\ valuesUsedBy(ir, ops) \cap definedBy(ir, others, otherBlocks) = {}
    /\ successorsOf(ir, ops) \cap otherBlocks = {}
    /\ \A o \in ops : ir.operations[o].block \notin otherBlocks
    /\ \A b \in bs : ir.blocks[b].parentOp \notin others
    /\ \A v \in definedBy(ir, ops, bs) \cap DOMAIN ir.useList :
       \A u \in Range(ir.useList[v]) : u.owner \notin others

\* Two clones of one operation, the first of the operations firstOps with
\* the blocks firstBlocks, the second of secondOps with secondBlocks, and
\* the original share nothing.
Independent(ir, original, firstOps, firstBlocks, secondOps, secondBlocks) ==
    /\ RefersToNone(ir, firstOps, firstBlocks, secondOps, secondBlocks)
    /\ RefersToNone(ir, secondOps, secondBlocks, firstOps, firstBlocks)
    /\ RefersToNone(ir, original, blocksOf(ir, original),
                    firstOps \cup secondOps, firstBlocks \cup secondBlocks)
    /\ firstOps \cap original = {}
    /\ secondOps \cap original = {}

\* C5: clone(mapper) returns an isomorphic copy: same name, attributes,
\* operand count, results and structure of regions, blocks and operations;
\* every reference in the copy to a Value or block defined inside the
\* original goes to the corresponding Value or block of the copy, and a
\* reference to one defined outside is looked up in the caller's mapping or
\* kept.  Two clones of an operation made with mappings without entries share
\* no operation, block or result with each other or with the original.
C5_CloneIsomorphicAndIndependent ==
    call.api = "clone" =>
        /\ irPc = "run"
        /\ IsomorphicOps(call.before, IR, call.mapper, call.orig, call.op)
        /\ OutsideKept(call.before, call.mapperBefore, call.mapper,
                       opsWithin(call.before, call.orig))
        /\ OriginalKept(call.before)
        /\ (/\ call.first.api = "clone"
            /\ call.first.mapperBefore = EmptyMapping
            /\ call.mapperBefore = EmptyMapping) =>
              /\ call.op # call.first.op
              /\ Independent(IR, opsWithin(IR, call.orig),
                    (Len(call.first.before.operations) + 1)
                        ..Len(call.before.operations),
                    (Len(call.first.before.blocks) + 1)
                        ..Len(call.before.blocks),
                    (Len(call.before.operations) + 1)..Len(operations),
                    (Len(call.before.blocks) + 1)..Len(blocks))

\* An operation was cloned twice with mappings without entries, and in its
\* region there is an operation that uses the argument of its block and
\* branches to its block.
C5_ClonedTwiceWithInnerReferences ==
    /\ call.api = "clone"
    /\ irPc = "run"
    /\ call.first.api = "clone"
    /\ call.first.mapperBefore = EmptyMapping
    /\ call.mapperBefore = EmptyMapping
    /\ \E o \in opsWithin(IR, call.orig) \ {call.orig} :
          /\ BlockArgument(operations[o].block, 1)
                \in Range(operations[o].operands)
          /\ operations[o].block \in Range(operations[o].successors)

(* ------------------------------------------------------------------ *)
(* The recursion-depth counter                                         *)
(* ------------------------------------------------------------------ *)

\* C11: the recursion-depth counter is strictly nested.  At every point of
\* a call of composeAffineMapAndOperands, fullyComposeAffineMapAndOperands
\* or makeComposedAffineApply it equals the number of AffineApplyNormalizer
\* objects alive; it never goes below zero; every step changes it by as much
\* as the number of objects alive changes, by one at most (one increment per
\* construction, one decrement per destruction, the early exit included);
\* and it is 0 before and after every top-level call that returns.
C11_DepthStrictlyNested ==
    /\ affineApplyDepth = Len(normalizers)
    /\ affineApplyDepth >= 0
    /\ pc \in {"idle", "called", "done"} => affineApplyDepth = 0
    /\ \A k \in 1..Len(normalizers) :
          \* only the innermost object runs code
          k < Len(normalizers) => normalizers[k].pc = "constructing"

\* C11 witness: a nested normalizer whose constructor took the early exit
\* is alive inside the top-level one, the counter being 2.
C11_NestedEarlyExitAlive ==
    /\ pc = "composing"
    /\ Len(normalizers) = 2
    /\ affineApplyDepth = 2
    /\ current.pc = "alive"
    /\ ~current.composed
    /\ current.operands # <<>>

(* ------------------------------------------------------------------ *)
(* One level of affine.apply per pass                                  *)
(* ------------------------------------------------------------------ *)

\* The length of the longest chain of affine.apply operations ending at the
\* definition of v.
RECURSIVE chainLength(_)
chainLength(v) ==
    IF isAffineApplyResult(v)
    THEN 1 + SetMax({0} \cup {chainLength(o) :
                        o \in Range(applyOps[ApplyIndex(v)].operands)})
    ELSE 0

\* The longest chain ending at an affine.apply on the operands ops.
chainEndingAt(ops) == 1 + SetMax({0} \cup {chainLength(o) : o \in Range(ops)})

\* The operands of the affine.apply operations that define operands of ops.
inlinedOperands(ops) ==
    UNION {Range(applyOps[ApplyIndex(v)].operands) :
              v \in {w \in Range(ops) : isAffineApplyResult(w)}}

\* C12: a single pass (composeAffineMapAndOperands, makeComposedAffineApply)
\* inlines exactly one level of affine.apply.  Every operand it returns is an
\* original operand not defined by an affine.apply, or an operand of an
\* affine.apply that defined an original operand, passed through unchanged;
\* so the longest chain ending at the composed operation is no longer than
\* the one ending at an un-composed apply of the original operands.  During
\* the pass only the outermost normalizer composes; the nested ones dispatch.
C12_OneLevelInlined ==
    /\ \A k \in 1..Len(normalizers) :
          normalizers[k].furtherCompose <=> k <= kMaxAffineApplyDepth
    /\ Len(normalizers) <= kMaxAffineApplyDepth + 1
    /\ (pc = "done" /\ api \in {"compose", "makeComposedAffineApply"}) =>
          /\ \A i \in 1..Len(operands) :
                \/ /\ operands[i] \in Range(inOperands)
                   /\ ~isAffineApplyResult(operands[i])
                \/ operands[i] \in inlinedOperands(inOperands)
          /\ chainEndingAt(operands) <= chainEndingAt(inOperands)
          /\ api = "makeComposedAffineApply" =>
                /\ applyOps[Len(applyOps)].operands = operands
                /\ chainLength(ResultOf(Len(applyOps)))
                      <= chainEndingAt(inOperands)

\* C12 witness: makeComposedAffineApply was given the result of an
\* affine.apply that is itself applied to the result of another, and the
\* operation it built still has that inner result as an operand.
C12_InnerApplyPassedThrough ==
    /\ pc = "done"
    /\ api = "makeComposedAffineApply"
    /\ \E j \in 1..Len(inOperands) :
          /\ isAffineApplyResult(inOperands[j])
          /\ chainLength(inOperands[j]) = 2
    /\ \E i \in 1..Len(operands) :
          /\ isAffineApplyResult(operands[i])
          /\ operands[i] \notin Range(inOperands)
    /\ chainEndingAt(operands) = 2

(* ------------------------------------------------------------------ *)
(* Folding                                                             *)
(* ------------------------------------------------------------------ *)

\* C13: AffineApplyOp::fold is value-preserving.  When the result of the map
\* is the bare dim d_i it returns operand i, when it is the bare symbol s_j
\* it returns operand numDims + j, and the returned operand holds what the
\* operation computes whatever the leaves hold; otherwise, when every
\* operand has a constant attribute, it returns the constant the map
\* evaluates to on them ((d0) -> (d0 + 3) on 5 gives 8); and when an operand
\* the map refers to has no constant attribute it returns no result.
C13_FoldValuePreserving ==
    foldCall.api = "AffineApplyOp::fold" =>
      LET m == foldCall.map
          expr == foldCall.map.results[1]
          ops == foldCall.operands
          attrs == foldCall.attrs
          res == foldCall.result
      IN  /\ isBare(expr, "d") =>
                /\ res = OpFoldResult("value", ops[expr.terms[1].pos + 1],
                                      NoAttribute)
                /\ \A env \in Envs :
                      valueOf(env, res.value) = applyMap(env, m, ops)[1]
          /\ isBare(expr, "s") =>
                /\ res = OpFoldResult("value",
                                      ops[m.numDims + expr.terms[1].pos + 1],
                                      NoAttribute)
                /\ \A env \in Envs :
                      valueOf(env, res.value) = applyMap(env, m, ops)[1]
          /\ (/\ ~isBare(expr, "d") /\ ~isBare(expr, "s")
              /\ \A i \in 1..Len(attrs) : attrs[i] # NoAttribute) =>
                res = OpFoldResult("attribute", 0,
                        IntegerAttr(evalMap(m, [i \in 1..Len(attrs) |->
                                                  attrs[i].int])[1]))
          /\ (/\ ~isBare(expr, "d") /\ ~isBare(expr, "s")
              /\ \E i \in UsedDims(expr) : attrs[i + 1] = NoAttribute) =>
                res.kind = "null"
          /\ (/\ ~isBare(expr, "d") /\ ~isBare(expr, "s")
              /\ \E j \in UsedSyms(expr) :
                    attrs[m.numDims + j + 1] = NoAttribute) =>
                res.kind = "null"
          /\ (/\ m = AffineMapGet(1, 0, <<ExprAdd(getAffineDimExpr(0),
                                                  getAffineConstantExpr(3))>>)
              /\ attrs = <<IntegerAttr(5)>>) =>
                res = OpFoldResult("attribute", 0, IntegerAttr(8))

\* C13 witness: ()[s0, s1] -> (s0 + s1 * 3) was folded on the constants 5
\* and -2 to the constant -1.
C13_FoldedTwoConstants ==
    /\ foldCall.api = "AffineApplyOp::fold"
    /\ foldCall.map = MapTwoSymbols
    /\ foldCall.attrs = <<IntegerAttr(5), IntegerAttr(-2)>>
    /\ foldCall.result = OpFoldResult("attribute", 0, IntegerAttr(-1))

\* The constants of a dialect hook as fold results.
asFoldResults(constants) ==
    [i \in 1..Len(constants) |-> OpFoldResult("attribute", 0, constants[i])]

\* C14: Operation::fold tries the hooks in a fixed order.  When the
\* operation is registered and its own fold hook succeeds, it returns
\* success with that hook's results and the dialect hook is not consulted;
\* the dialect's constantFoldHook is called only when the op hook is absent
\* or has failed, after it, and on success its constants are the results;
\* when neither succeeds, or no dialect is found, it returns failure; no
\* diagnostic is reported.
C14_FoldHookOrder ==
    foldCall.api = "Operation::fold" =>
      LET registered == getAbstractOperation(foldCall.name, foldCall.context)
          opHook == foldCall.opHook
          dialectHook == foldCall.dialectHook
          res == foldCall.result
      IN  /\ (registered /\ opHook.succeeded) =>
                /\ res.succeeded
                /\ res.results = opHook.results
                /\ res.consulted = <<"foldHook">>
          /\ (registered /\ ~opHook.succeeded) =>
                res.consulted = <<"foldHook", "constantFoldHook">>
          /\ ~registered =>
                res.consulted \in {<<>>, <<"constantFoldHook">>}
          /\ (res.consulted # <<>>
              /\ res.consulted[Len(res.consulted)] = "constantFoldHook") =>
                /\ res.succeeded = dialectHook.succeeded
                /\ dialectHook.succeeded =>
                      res.results = asFoldResults(dialectHook.results)
          /\ res.succeeded <=>
                \/ registered /\ opHook.succeeded
                \/ /\ getDialect(foldCall.name, foldCall.context)
                   /\ dialectHook.succeeded
          /\ res.diagnostics = <<>>

\* C14 witness: the fold hook of a registered operation failed and the
\* constant of the dialect hook became the result.
C14_DialectHookAfterOpHook ==
    /\ foldCall.api = "Operation::fold"
    /\ getAbstractOperation(foldCall.name, foldCall.context)
    /\ ~foldCall.opHook.succeeded
    /\ foldCall.result.succeeded
    /\ foldCall.result.consulted = <<"foldHook", "constantFoldHook">>
    /\ foldCall.result.results = asFoldResults(<<IntegerAttr(5)>>)

\* C15 as claimed: Operation::fold returns failure for every operation whose
\* name does not resolve to a registered operation, whatever dialects are
\* registered in the context.
C15_UnregisteredNeverFolds ==
    (/\ foldCall.api = "Operation::fold"
     /\ ~getAbstractOperation(foldCall.name, foldCall.context)) =>
        ~foldCall.result.succeeded

\* C15 amended: for an operation whose name does not resolve to a
\* registered operation, Operation::fold never calls an operation fold hook;
\* it returns failure, calling no hook, when the dialect of the name is not
\* registered in the context, and otherwise returns what the dialect's
\* constantFoldHook answers.
C15_UnregisteredFoldsByDialectOnly ==
    (/\ foldCall.api = "Operation::fold"
     /\ ~getAbstractOperation(foldCall.name, foldCall.context)) =>
        IF dialectOf(foldCall.name) \in foldCall.context
        THEN /\ foldCall.result.consulted = <<"constantFoldHook">>
             /\ foldCall.result.succeeded = foldCall.dialectHook.succeeded
             /\ foldCall.result.results
                   = asFoldResults(foldCall.dialectHook.results)
        ELSE /\ foldCall.result.consulted = <<>>
             /\ ~foldCall.result.succeeded
             /\ foldCall.result.results = <<>>

\* C15 witness: an unregistered operation of a registered dialect was folded
\* by the dialect hook although its own hook would have succeeded.
C15_OpaqueFoldedByDialect ==
    /\ foldCall.api = "Operation::fold"
    /\ foldCall.name = "toy.opaque"
    /\ foldCall.context = {"toy"}
    /\ foldCall.opHook.succeeded
    /\ foldCall.result.succeeded
    /\ foldCall.result.results = asFoldResults(<<IntegerAttr(-2)>>)

(* ------------------------------------------------------------------ *)
(* Terminators                                                         *)
(* ------------------------------------------------------------------ *)

\* C16: terminator placement is enforced by verification.  For every
\* operation of a terminator kind that is not the last operation of its
\* block (another operation was put after it), or that is in no block,
\* verifyIsTerminator returns failure with the diagnostic "must be the last
\* operation in the parent block"; it never succeeds in that state.
C16_TerminatorMustBeLast ==
    call.api = "verifyIsTerminator" =>
      LET o == operations[call.op]
      IN  (\/ o.block = 0
           \/ blocks[o.block].operations[Len(blocks[o.block].operations)]
                 # call.op) =>
             /\ ~call.result.succeeded
             /\ call.result.diagnostic =
                   <<"'", o.name, "' op ",
                     "must be the last operation in the parent block">>

\* C16 witness: verifyIsTerminator failed on a terminator with a successor
\* that another operation follows in its block.
C16_OperationAfterTerminator ==
    /\ call.api = "verifyIsTerminator"
    /\ operations[call.op].block # 0
    /\ operations[call.op].successors # <<>>
    /\ blocks[operations[call.op].block].operations = <<call.op, 2>>
    /\ ~call.result.succeeded

\* Successor k (from 1) of the verified operation is a block of the region
\* of the operation and its operands agree with the arguments of the block
\* in number and in type.
successorMatches(o, types, k) ==
    /\ getParent(IR, o.successors[k]) = getParent(IR, o.block)
    /\ Len(getSuccessorOperands(o, k - 1))
          = blocks[o.successors[k]].numArguments
    /\ \A i \in 1..Len(getSuccessorOperands(o, k - 1)) :
          i <= blocks[o.successors[k]].numArguments =>
             types[getSuccessorOperands(o, k - 1)[i]]
                = types[BlockArgument(o.successors[k], i)]

\* C17: verifyIsTerminator succeeds on a terminator with successors only if
\* every successor block lies in the region of the terminator and, for each
\* successor, the number of successor operands equals the number of
\* arguments of the block and the i-th operand has the type of the i-th
\* argument; any violation yields failure with a diagnostic.
C17_SuccessorsVerified ==
    (/\ call.api = "verifyIsTerminator"
     /\ operations[call.op].successors # <<>>) =>
       LET o == operations[call.op]
       IN  /\ call.result.succeeded =>
                /\ o.block # 0
                /\ \A k \in 1..Len(o.successors) :
                      successorMatches(o, call.types, k)
           /\ (/\ o.block # 0
               /\ \E k \in 1..Len(o.successors) :
                     ~successorMatches(o, call.types, k)) =>
                /\ ~call.result.succeeded
                /\ call.result.diagnostic # <<>>

\* C17 witness: a terminator passed verification whose successor is another
\* block of its region, with one operand for the one argument of the block.
C17_BranchWithOperandVerified ==
    /\ call.api = "verifyIsTerminator"
    /\ call.result.succeeded
    /\ Len(operations[call.op].successors) = 1
    /\ operations[call.op].successors[1] # operations[call.op].block
    /\ Len(getSuccessorOperands(operations[call.op], 0)) = 1

(* ------------------------------------------------------------------ *)
(* The partition of the operands by successor                          *)
(* ------------------------------------------------------------------ *)

\* The operand ranges of an operation, in order: the non-successor
\* operands, then the operands of each successor.
operandRanges(o) ==
    <<getNonSuccessorOperands(o)>>
    \o [k \in 1..Len(o.successors) |-> getSuccessorOperands(o, k - 1)]

RECURSIVE Flatten(_)
Flatten(ss) == IF ss = <<>> THEN <<>> ELSE Head(ss) \o Flatten(Tail(ss))

\* The operands argument of create cut at its null sentinels.
RECURSIVE sentinelSegments(_)
sentinelSegments(operandsArg) ==
    IF \A i \in 1..Len(operandsArg) : operandsArg[i] # NullValue
    THEN <<operandsArg>>
    ELSE <<SubSeq(operandsArg, 1, FirstPos(operandsArg, NullValue, 1))>>
         \o sentinelSegments(
                SubSeq(operandsArg, FirstPos(operandsArg, NullValue, 1) + 2,
                       Len(operandsArg)))

\* C18: for every operation built by create or cloneWithoutRegions,
\* getNumOperands() is the number of non-successor operands plus the sum of
\* the stored per-successor operand counts; the ranges
\* getNonSuccessorOperands(), getSuccessorOperands(0), ...,
\* getSuccessorOperands(n-1) are contiguous, disjoint, in successor order
\* and cover the operand list; each range of an operation built by create
\* holds the operands that followed the corresponding null sentinel, and
\* each range of a clone the looked-up operands of the same range of the
\* original.
C18_SuccessorOperandPartition ==
    irPc = "run" =>
      /\ \A op \in 1..Len(operations) :
            LET o == operations[op]
            IN  /\ Len(o.succOperandCount) = Len(o.successors)
                /\ Len(o.operands) = getNumOperands(o)
                /\ getNumOperands(o)
                      = Len(getNonSuccessorOperands(o))
                        + SeqSum(o.succOperandCount)
                /\ \A k \in 1..Len(o.successors) :
                      /\ getSuccessorOperandIndex(o, k - 1) >= 0
                      /\ Len(getSuccessorOperands(o, k - 1))
                            = o.succOperandCount[k]
                      /\ getSuccessorOperandIndex(o, k - 1)
                            + o.succOperandCount[k]
                         = IF k < Len(o.successors)
                           THEN getSuccessorOperandIndex(o, k)
                           ELSE getNumOperands(o)
                /\ Flatten(operandRanges(o)) = o.operands
      /\ call.api = "create" =>
            operandRanges(operations[call.op])
               = sentinelSegments(call.operands)
      /\ call.api = "cloneWithoutRegions" =>
            operandRanges(operations[call.op])
               = [k \in 1..Len(operandRanges(operations[call.orig])) |->
                    lookupValues(call.mapperBefore,
                                 operandRanges(operations[call.orig])[k])]

\* C18 witness: create was given a sentinel, an operand and a sentinel for
\* two successors, and the operation it built was cloned.
C18_TwoSuccessorsCloned ==
    /\ irPc = "run"
    /\ call.api = "cloneWithoutRegions"
    /\ Len(operations[call.orig].successors) = 2
    /\ operations[call.orig].succOperandCount = <<1, 0>>
    /\ getSuccessorOperandIndex(operations[call.op], 0) = 0
    /\ getSuccessorOperandIndex(operations[call.op], 1) = 1

\* C19: erase on an operation linked in a block removes it from the list of
\* that block, clearing its block pointer, before it destroys it, and on an
\* unlinked operation destroys it directly, so the assertion of the
\* destructor that the operation is in no block holds on every erase; a
\* destroy of an operation still linked in a block fails that assertion.
C19_UnlinkBeforeDestroy ==
    /\ call.api = "erase" =>
          /\ call.assertHeld
          /\ irPc = "run"
          /\ call.op \in call.destroyed
          /\ operations[call.op].block = 0
          /\ \A b \in 1..Len(blocks) :
                blocks[b].operations
                   = SelectSeq(call.before.blocks[b].operations,
                               LAMBDA x : x # call.op)
    /\ call.api = "destroy" =>
          /\ call.assertHeld = (call.before.operations[call.op].block = 0)
          /\ ~call.assertHeld =>
                /\ irPc = "abort"
                /\ call.destroyed = {}
                /\ IR = call.before

\* C19 witness: an operation was erased from a block that held another
\* operation as well, which is still there.
C19_ErasedFromSharedBlock ==
    /\ call.api = "erase"
    /\ call.before.operations[call.op].block # 0
    /\ Len(call.before.blocks[
              call.before.operations[call.op].block].operations) = 2
    /\ Len(blocks[call.before.operations[call.op].block].operations) = 1

\* C20: after ensureRegionTerminator the region has a block and the last
\* operation of its last block is a terminator; the build function is
\* called once when that block was empty or did not end in a known
\* terminator and not at all otherwise, so a second call leaves the region
\* as it is.
C20_EnsureRegionTerminator ==
    call.api = "ensureRegionTerminator" =>
        /\ operations[call.op].regions[call.r] # <<>>
        /\ endsInKnownTerminator(IR, back(IR, call.op, call.r))
        /\ call.builds
             = IF \/ call.before.operations[call.op].regions[call.r] = <<>>
                  \/ ~endsInKnownTerminator(call.before,
                         back(call.before, call.op, call.r))
               THEN 1 ELSE 0
        /\ Len(operations) = Len(call.before.operations) + call.builds
        /\ call.builds = 1 =>
              /\ operations[Len(operations)].name \in KnownTerminators
              /\ operations[Len(operations)].block
                    = back(IR, call.op, call.r)
              /\ \A b \in 1..Len(call.before.blocks) :
                    blocks[b].operations
                       = IF b = back(IR, call.op, call.r)
                         THEN Append(call.before.blocks[b].operations,
                                     Len(operations))
                         ELSE call.before.blocks[b].operations
        /\ call.builds = 0 => IR = call.before
        /\ call.second => (call.builds = 0 /\ IR = call.before)

\* C20 witness: the second call on a region whose last block got its
\* terminator after another operation.
C20_SecondCallAfterBuild ==
    /\ call.api = "ensureRegionTerminator"
    /\ call.second
    /\ Len(blocks[back(IR, call.op, call.r)].operations) = 2
    /\ operations[blocks[back(IR, call.op, call.r)].operations[2]].name
          = "affine.terminator"
    /\ ~isKnownTerminator(
          operations[blocks[back(IR, call.op, call.r)].operations[1]].name)

(* ------------------------------------------------------------------ *)
(* The folder                                                          *)
(* ------------------------------------------------------------------ *)

\* Whether op is in the operation list of a block.
inSomeBlock(op) ==
    /\ operations[op].block # 0
    /\ op \in Range(blocks[operations[op].block].operations)

\* C21: OperationFolder::create erases the operation it built exactly when
\* the fold succeeded and the operation has a result; when the fold fails
\* the operation stays in its block and the results returned are its own;
\* an operation without results is never erased and is returned.
C21_CreateErasesFolded ==
    folderCall.api = "create" =>
        /\ (folderCall.op \in freed)
              = (/\ folderCall.foldSucceeded
                 /\ operations[folderCall.op].numResults >= 1)
        /\ folderCall.op \in freed =>
              /\ operations[folderCall.op].block = 0
              /\ \A b \in 1..Len(blocks) :
                    folderCall.op \notin Range(blocks[b].operations)
        /\ ~folderCall.foldSucceeded =>
              /\ inSomeBlock(folderCall.op)
              /\ folderCall.zeroResult
                 \/ folderCall.results
                       = [i \in 1..operations[folderCall.op].numResults |->
                            OpResult(folderCall.op, i)]
        /\ operations[folderCall.op].numResults = 0 =>
              /\ folderCall.op \notin freed
              /\ inSomeBlock(folderCall.op)

\* C21 witness: the fold of a loop, which has no result, succeeded in the
\* general create and the loop is still in its block.
C21_FoldedLoopKept ==
    /\ folderCall.api = "create"
    /\ folderCall.foldSucceeded
    /\ ~folderCall.zeroResult
    /\ operations[folderCall.op].numResults = 0
    /\ inSomeBlock(folderCall.op)

\* The constant operations that are in a block.
liveConstants ==
    {op \in liveOps : operations[op].name = ConstantState.name}

\* C22: while tryToFold and create are the only calls on the folder, the
\* constants of a region differ in value or type, every entry of the map of
\* a region refers to a constant of that region with the value and type of
\* its key, and a fold of an operation that is no uniqued constant, when it
\* finds its key in the map, returns the constant there and makes no
\* operation.
C22_ConstantsUniqued ==
    /\ notified = {} =>
          \A c1, c2 \in liveConstants :
             (/\ c1 # c2
              /\ getContainingRegion(IR, c1) = getContainingRegion(IR, c2))
                => info[c1] # info[c2]
    /\ \A e1, e2 \in foldScopes :
          (/\ e1.region = e2.region /\ e1.dialect = e2.dialect
           /\ e1.value = e2.value /\ e1.type = e2.type) => e1.op = e2.op
    /\ \A e \in foldScopes :
          /\ e.op \in liveConstants
          /\ getContainingRegion(IR, e.op) = e.region
          /\ info[e.op] = [type |-> e.type, value |-> e.value]
    /\ (/\ folderCall.api \in {"create", "tryToFold"}
        /\ dialectsOf(referencedDialects, folderCall.op) = {}
        /\ folderCall.existing # 0) =>
          /\ folderCall.foldSucceeded
          /\ folderCall.made = IF folderCall.api = "create" THEN 1 ELSE 0
          /\ folderCall.op \in freed
          /\ folderCall.existing \in liveConstants
          /\ getContainingRegion(IR, folderCall.existing)
                = folderCall.region
          /\ folderCall.api = "create" =>
                folderCall.results = <<OpResult(folderCall.existing, 1)>>

\* C22 witness: an affine.apply made in a loop folded to the constant that
\* the map of the region of the loop had already.
C22_ConstantReusedInLoop ==
    /\ folderCall.api = "create"
    /\ folderCall.existing # 0
    /\ folderCall.region[1] # 0
    /\ operations[folderCall.op].name = "affine.apply"
    /\ folderCall.results = <<OpResult(folderCall.existing, 1)>>

describedAsSymbol(v) ==
    \/ defs[v].inFunctionRegion
    \/ defs[v].kind = "std.constant"
    \/ /\ defs[v].kind = "affine.apply"
       /\ \A i \in 1..Len(defs[v].operands) :
            defs[defs[v].operands[i]].validSymbol

\* The further cases of a dim: the induction variable of a loop, which is
\* an index block argument, and a dim of a top-level memref or tensor.
describedAsDim(v) ==
    \/ /\ defs[v].kind = "argument"
       /\ defs[v].type = "index"
       /\ ~defs[v].inFunctionRegion
    \/ /\ defs[v].kind = "std.dim"
       /\ defs[defs[v].operands[1]].inFunctionRegion

RECURSIVE applyChain(_, _)
applyChain(v, depth) ==
    IF depth = 0 THEN TRUE
    ELSE /\ defs[v].kind = "affine.apply"
         /\ ~defs[v].inFunctionRegion
         /\ Len(defs[v].operands) = 1
         /\ applyChain(defs[v].operands[1], depth - 1)

positionInList(op) ==
    CHOOSE i \in 1..Len(opLists[opBlock[op]]) : opLists[opBlock[op]][i] = op

\* C25: whatever insertions, removals, moves and transfers came before,
\* isBeforeInBlock answers true exactly when the first operation strictly
\* precedes the second in the list of their block.
C25_OrderMatchesList ==
    orderQuery.op # 0 =>
        (orderQuery.result
            <=> positionInList(orderQuery.op) < positionInList(orderQuery.other))

\* C25 witness: the indices of a block of three operations no longer
\* gave the order of the list, the other block holding one operation, and
\* the call recomputed them and answered by the list.
C25_StaleIndexRecomputed ==
    /\ orderQuery.op # 0 /\ orderQuery.result
    /\ orderQuery.recomputed /\ ~orderQuery.found
    /\ Len(opLists[opBlock[orderQuery.op]]) = 3
    /\ Len(opLists[3 - opBlock[orderQuery.op]]) = 1


(* ------------------------------------------------------------------ *)
(* Promoted symbols and the dispatch of the operands                   *)
(* ------------------------------------------------------------------ *)

\* The map of normalizer n after promoteComposedSymbolsAsDims.
rewrittenMap(n) ==
    promoteComposedSymbolsAsDims(n.map, take_back(n.operands, n.map.numSymbols))

\* The dim or symbol of the rewritten map that stands for operand j of n:
\* a dim of the map keeps its position, a symbol becomes what
\* promoteComposedSymbolsAsDims replaces it by.
usedAs(n, j) ==
    IF (j - 1) < n.map.numDims THEN getAffineDimExpr(j - 1)
    ELSE promoteComposedSymbolsAsDims(
            AffineMapGet(n.map.numDims, n.map.numSymbols,
                         <<getAffineSymbolExpr(j - 1 - n.map.numDims)>>),
            take_back(n.operands, n.map.numSymbols)).results[1]

\* Whether the loop of the constructor gives operand j of n an entry of
\* auxiliaryExprs (cases 1.a, 2.a and 2.b) or of concatenatedSymbols.
toAuxiliaryExprs(n, j) ==
    IF n.furtherCompose
    THEN isAffineApplyResult(n.operands[j]) \/ (j - 1) < n.map.numDims
    ELSE (j - 1) < rewrittenMap(n).numDims

\* The dim or symbol operand j of n is dispatched to: auxiliaryExprs gives
\* the dims of the rewritten map in order, and the operands dispatched as
\* symbols give its symbols in order.
dispatchedAs(n, j) ==
    IF toAuxiliaryExprs(n, j)
    THEN getAffineDimExpr(
            Cardinality({k \in 1..(j - 1) : toAuxiliaryExprs(n, k)}))
    ELSE getAffineSymbolExpr(
            Cardinality({k \in 1..(j - 1) : ~toAuxiliaryExprs(n, k)}))

\* C26: in every normalizer, in the composing branch as in the branch taken
\* beyond the depth cap, every operand the constructor has gone through was
\* dispatched to the dim or symbol that the rewritten map uses for it.
C26_DispatchedToOwnPosition ==
    \A d \in 1..Len(normalizers) :
        \A j \in 1..(normalizers[d].i - 1) :
            dispatchedAs(normalizers[d], j) = usedAs(normalizers[d], j)


(* ------------------------------------------------------------------ *)
(* The passes of fullyComposeAffineMapAndOperands                      *)
(* ------------------------------------------------------------------ *)

\* The number of operands of ops that are results of an affine.apply.
applyOperandCount(ops) ==
    Cardinality({i \in 1..Len(ops) : isAffineApplyResult(ops[i])})

\* The longest chain of affine.apply operations that ends at an operand.
longestChain(ops) == SetMax({0} \cup {chainLength(o) : o \in Range(ops)})

\* C27 as stated: every pass of the loop of
\* fullyComposeAffineMapAndOperands leaves fewer operands that are results
\* of an affine.apply than it found, or none.
C27_FewerApplyOperands ==
    [][passes' = passes + 1 =>
        \/ applyOperandCount(operands') < applyOperandCount(operands)
        \/ applyOperandCount(operands') = 0]_vars

\* C27, amended: every pass of the loop of
\* fullyComposeAffineMapAndOperands shortens the longest chain of
\* affine.apply operations that ends at an operand; the number of operands
\* that are results of an affine.apply need not decrease.
C27_ShorterChains ==
    [][passes' = passes + 1 =>
        longestChain(operands') < longestChain(operands)]_vars

\* C27 witness: the first pass on an operand at the end of a chain of two
\* affine.apply operations has left as many affine.apply operands as it
\* found, and the loop goes on.
C27_PassLeftApplyOperand ==
    /\ pc = "loop" /\ api = "fullyCompose" /\ passes = 1
    /\ longestChain(inOperands) = 2
    /\ longestChain(operands) = 1
    /\ applyOperandCount(operands) = applyOperandCount(inOperands)


(* ------------------------------------------------------------------ *)
(* Diagnostics of the trait checks                                     *)
(* ------------------------------------------------------------------ *)

\* C29: a trait check that returns failure has emitted a diagnostic on the
\* operation, whatever the number of operands and results, zero included.
C29_FailureHasDiagnostic ==
    (traitCall.check # "none" /\ ~traitCall.result.succeeded)
        => traitCall.result.diagnostic # <<>>


(* ------------------------------------------------------------------ *)
(* Failure of replaceAllMemRefUsesWith                                 *)
(* ------------------------------------------------------------------ *)

\* C30: when replaceAllMemRefUsesWith returns false the IR is as it was
\* before the call: no operation was created, no use of a result was
\* redirected and no user was duplicated, in whatever order the users of
\* the old memref are visited.
C30_FailureLeavesIRUnchanged ==
    (call.api = "replaceAllMemRefUsesWith" /\ ~call.result)
        => IR = call.before

====
